---- MODULE Spec2Model ----
(***************************************************************************)
(* Model of the calculation functions of the Calculator pages:             *)
(*   pages/2_Loan_Calculator.py      calculate_loan_payment,               *)
(*                                   calculate_amortization, page logic    *)
(*   pages/1_Interest_Calculator.py  future_value_with_contributions       *)
(*   Old/.../1_Interest_Calculator.py compound_interest                    *)
(*                                                                         *)
(* Numbers.  The code computes with Python floats (IEEE binary64), and the *)
(* model computes with the same numbers: a finite float is the record      *)
(* [k |-> "fin", s, m, e] = s * m * 2^e with the sign s in {1, -1}, m an   *)
(* odd natural number of at most 53 bits and e >= -1074 (zero is s = 1,    *)
(* m = 0, e = 0), so equal numbers are equal records.  m is kept as the    *)
(* sequence of its digits in base 2^15, lowest first, because the integers *)
(* of the checker have 32 bits.  Sums, differences, products and quotients *)
(* are computed exactly and rounded once to the nearest float, ties to the *)
(* even mantissa, with gradual underflow and overflow to infinity, as the  *)
(* hardware does; inf - inf, inf * 0, 0 / 0 and inf / inf are NaN, and     *)
(* every comparison with NaN is false.  The sign of zero is not kept.      *)
(* x ** y is the C library's pow, which is close to the exact power but    *)
(* not always the nearest float: Pow(x, y) is the set of the floats the    *)
(* library may return, one float, or two where the exact power is near the *)
(* middle between them.  math.exp and math.log are tabulated at the        *)
(* arguments the inputs reach.                                             *)
(***************************************************************************)
EXTENDS Integers, Sequences, FiniteSets, TLC

(***************************************************************************)
(* Natural numbers of any size: the digits in base 2^15, lowest first, no  *)
(* zero digit at the top; <<>> is 0.                                       *)
(***************************************************************************)

Min(x, y) == IF x < y THEN x ELSE y

Max(x, y) == IF x > y THEN x ELSE y

Digit(a, i) == IF i >= 1 /\ i <= Len(a) THEN a[i] ELSE 0

BTrim(a) ==
    IF a = <<>> \/ a[Len(a)] # 0 THEN a
    ELSE SubSeq(a, 1, Cardinality({i \in 1..Len(a) : \E j \in i..Len(a) : a[j] # 0}))

\* Carries (or borrows) are moved up until every digit is within the base.
RECURSIVE BCarry(_)
BCarry(x) ==
    IF \A i \in 1..Len(x) : x[i] >= 0 /\ x[i] < 32768 THEN BTrim(x)
    ELSE BCarry([i \in 1..(Len(x) + 1) |->
                    (Digit(x, i) % 32768) + (Digit(x, i - 1) \div 32768)])

BAdd(a, b) == BCarry([i \in 1..Max(Len(a), Len(b)) |-> Digit(a, i) + Digit(b, i)])

\* a - b for a >= b
BSub(a, b) == BCarry([i \in 1..Len(a) |-> a[i] - Digit(b, i)])

BCmp(a, b) ==
    IF Len(a) # Len(b) THEN (IF Len(a) < Len(b) THEN -1 ELSE 1)
    ELSE IF a = b THEN 0
    ELSE IF \E i \in 1..Len(a) :
                a[i] < b[i] /\ \A j \in (i + 1)..Len(a) : a[j] = b[j] THEN -1
    ELSE 1

BMulDigit(a, s) == BCarry([i \in 1..Len(a) |-> a[i] * s])

\* The low and the high halves of the digit products that fall in column k.
RECURSIVE BColumn(_, _, _, _)
BColumn(a, b, k, i) ==
    IF i > Len(a) THEN 0
    ELSE ((a[i] * Digit(b, k + 1 - i)) % 32768)
            + ((a[i] * Digit(b, k - i)) \div 32768)
            + BColumn(a, b, k, i + 1)

BMul(a, b) == BCarry([k \in 1..(Len(a) + Len(b)) |-> BColumn(a, b, k, 1)])

\* The number of bits of a.
BitLen(a) ==
    IF a = <<>> THEN 0
    ELSE 15 * (Len(a) - 1) + Cardinality({k \in 0..14 : 2^k <= a[Len(a)]})

\* Bit i of a, the lowest being bit 0.
Bit(a, i) == (Digit(a, (i \div 15) + 1) \div 2^(i % 15)) % 2

\* a * 2^k
BShl(a, k) ==
    IF a = <<>> \/ k = 0 THEN a
    ELSE [i \in 1..(k \div 15) |-> 0]
            \o BTrim([i \in 1..(Len(a) + 1) |->
                         (Digit(a, i) % 2^(15 - (k % 15))) * 2^(k % 15)
                            + (Digit(a, i - 1) \div 2^(15 - (k % 15)))])

\* floor(a / 2^k)
BShr(a, k) ==
    IF k = 0 THEN a
    ELSE BTrim([i \in 1..(Len(a) - (k \div 15)) |->
                   (Digit(a, i + (k \div 15)) \div 2^(k % 15))
                      + (Digit(a, i + (k \div 15) + 1) % 2^(k % 15)) * 2^(15 - (k % 15))])

\* The number of zero bits at the low end of a > 0.
BZeros(a) ==
    15 * Cardinality({i \in 1..Len(a) : \A j \in 1..i : a[j] = 0})
       + Cardinality({k \in 1..14 :
             a[1 + Cardinality({i \in 1..Len(a) : \A j \in 1..i : a[j] = 0})] % 2^k = 0})

\* The natural number n < 2^31 and back.
BFromInt(n) == BTrim(<<n % 32768, (n \div 32768) % 32768, n \div 1073741824>>)

BToInt(a) == Digit(a, 1) + 32768 * Digit(a, 2) + 1073741824 * Digit(a, 3)

\* floor(r / b) for r < b * 2^15 and b with its top digit at least 2^14,
\* downwards from q, which is at most 2 too large.
RECURSIVE BQuotDown(_, _, _)
BQuotDown(r, b, q) == IF BCmp(BMulDigit(b, q), r) > 0 THEN BQuotDown(r, b, q - 1) ELSE q

\* The two top digits of r over the top digit of b.
BQuotDigit(r, b) ==
    BQuotDown(r, b, Min(32767, (Digit(r, Len(b) + 1) * 32768 + Digit(r, Len(b)))
                                   \div b[Len(b)]))

\* Long division from digit i of a downwards, r the remainder and q the
\* quotient so far, qd the next digit of the quotient.
RECURSIVE BDivFrom(_, _, _, _, _)
RECURSIVE BDivDigit(_, _, _, _, _, _)
BDivFrom(a, b, i, r, q) ==
    IF i = 0 THEN [q |-> BTrim(q), r |-> r]
    ELSE BDivDigit(a, b, i, BTrim(<<a[i]>> \o r), q, BQuotDigit(BTrim(<<a[i]>> \o r), b))

BDivDigit(a, b, i, r, q, qd) ==
    IF qd = 0 THEN BDivFrom(a, b, i - 1, r, <<0>> \o q)
    ELSE BDivFrom(a, b, i - 1, BSub(r, BMulDigit(b, qd)), <<qd>> \o q)

\* Quotient and remainder of x by y > 0 with its top digit at least 2^14:
\* the top digits of x that hold no quotient digit start as the remainder.
BDivNormal(x, y) ==
    IF Len(x) < Len(y) THEN [q |-> <<>>, r |-> x]
    ELSE BDivFrom(x, y, Len(x) - Len(y) + 1,
                  BTrim(SubSeq(x, Len(x) - Len(y) + 2, Len(x))), <<>>)

\* Quotient of a by b > 0, and whether it is exact: both are shifted so that
\* the top digit of b is at least 2^14.
BDiv(a, b) == BDivNormal(BShl(a, 15 - (BitLen(b) - 15 * (Len(b) - 1))),
                         BShl(b, 15 - (BitLen(b) - 15 * (Len(b) - 1))))

\* floor(sqrt(n)): Newton's iteration downwards from x >= sqrt(n).
RECURSIVE BSqrtFrom(_, _)
RECURSIVE BSqrtNext(_, _, _)
BSqrtFrom(n, x) == BSqrtNext(n, x, BShr(BAdd(x, BDiv(n, x).q), 1))

BSqrtNext(n, x, y) == IF BCmp(y, x) >= 0 THEN x ELSE BSqrtFrom(n, y)

BSqrt(n) == IF n = <<>> THEN <<>> ELSE BSqrtFrom(n, BShl(<<1>>, (BitLen(n) + 1) \div 2))

(***************************************************************************)
(* Floats.                                                                 *)
(***************************************************************************)

\* The float s * m * 2^e, m odd and below 2^53.
Float(s, m, e) == [k |-> "fin", s |-> s, m |-> m, e |-> e]

Zero == [k |-> "fin", s |-> 1, m |-> <<>>, e |-> 0]

One == [k |-> "fin", s |-> 1, m |-> <<1>>, e |-> 0]

Inf == [k |-> "inf", s |-> 1, m |-> <<>>, e |-> 0]

NegInf == [k |-> "inf", s |-> -1, m |-> <<>>, e |-> 0]

NaN == [k |-> "nan", s |-> 1, m |-> <<>>, e |-> 0]

IsFin(a) == a.k = "fin"

IsNaN(a) == a.k = "nan"

IsInf(a) == a.k = "inf"

IsZero(a) == a.k = "fin" /\ a.m = <<>>

\* The position above the top bit of a, 2^(Top - 1) <= |a| < 2^Top; the
\* infinities are above every float.
Top(a) == IF IsInf(a) THEN 2048 ELSE a.e + BitLen(a.m)

\* s * m * 2^e for m of at most 53 bits, in canonical form; 2^1024 and
\* more, which is what exceeds sys.float_info.max after rounding, is an
\* infinity.
Fin(s, m, e) ==
    IF m = <<>> THEN Zero
    ELSE IF e + BitLen(m) > 1024 THEN (IF s > 0 THEN Inf ELSE NegInf)
    ELSE Float(s, BShr(m, BZeros(m)), e + BZeros(m))

\* The lowest `drop` bits of m, and what is beyond them if inexact, are more
\* than half of the bit above them, or half of it with that bit set.
RoundsUp(m, inexact, drop) ==
    /\ drop > 0
    /\ Bit(m, drop - 1) = 1
    /\ inexact \/ BZeros(m) < drop - 1 \/ Bit(m, drop) = 1

\* s * m * 2^e, a little more if inexact, rounded at its lowest `drop` bits:
\* to nearest, a tie to the even mantissa.
RoundAt(s, m, e, inexact, drop) ==
    Fin(s, IF RoundsUp(m, inexact, drop) THEN BAdd(BShr(m, drop), <<1>>) ELSE BShr(m, drop),
        e + drop)

\* The float nearest to it: 53 bits are kept, fewer below 2^-1022 where the
\* lowest bit is 2^-1074.
Round(s, m, e, inexact) ==
    RoundAt(s, m, e, inexact, Max(Max(BitLen(m) - 53, -1074 - e), 0))

\* The rounded quotient qr, a little more if a remainder is left.
RoundQuotient(s, qr, e) == Round(s, qr.q, e, qr.r # <<>>)

\* s * (n / d) * 2^e rounded, for n > 0 of no more than 55 bits over those
\* of d: the quotient is taken to 55 bits or more.
Ratio(s, n, d, e) ==
    RoundQuotient(s, BDiv(BShl(n, 55 + BitLen(d) - BitLen(n)), d),
                  e - (55 + BitLen(d) - BitLen(n)))

\* The float of the integer n, |n| < 2^31.
FromInt(n) == Fin(IF n < 0 THEN -1 ELSE 1, BFromInt(IF n < 0 THEN -n ELSE n), 0)

Neg(a) == IF IsNaN(a) \/ IsZero(a) THEN a ELSE [a EXCEPT !.s = -a.s]

\* -1, 0, 1 as |a| < |b|, |a| = |b|, |a| > |b|, for non-zero a and b with
\* tops ta and tb.
CmpMagnitude(a, b, ta, tb) ==
    IF ta # tb THEN (IF ta < tb THEN -1 ELSE 1)
    ELSE IF IsInf(a) THEN 0
    ELSE BCmp(BShl(a.m, a.e - Min(a.e, b.e)), BShl(b.m, b.e - Min(a.e, b.e)))

\* -1, 0, 1 as the sign of a.
Sign(a) == IF IsZero(a) THEN 0 ELSE a.s

\* -1, 0, 1 as a < b, a = b, a > b, for finite or infinite a and b.
Cmp(a, b) ==
    IF Sign(a) # Sign(b) THEN (IF Sign(a) < Sign(b) THEN -1 ELSE 1)
    ELSE IF IsZero(a) THEN 0
    ELSE a.s * CmpMagnitude(a, b, Top(a), Top(b))

Lt(a, b) == ~IsNaN(a) /\ ~IsNaN(b) /\ Cmp(a, b) < 0

Le(a, b) == ~IsNaN(a) /\ ~IsNaN(b) /\ Cmp(a, b) <= 0

Gt(a, b) == Lt(b, a)

Ge(a, b) == Le(b, a)

Eq(a, b) == ~IsNaN(a) /\ ~IsNaN(b) /\ Cmp(a, b) = 0

\* The sum of s_a * x * 2^e and s_b * y * 2^e.
AddAt(sa, x, sb, y, e) ==
    Round(IF sa = sb \/ BCmp(x, y) >= 0 THEN sa ELSE sb,
          IF sa = sb THEN BAdd(x, y)
          ELSE IF BCmp(x, y) >= 0 THEN BSub(x, y)
          ELSE BSub(y, x),
          e, FALSE)

\* The sum of the non-zero floats a and b with tops ta and tb: a term 2^56
\* times smaller than the other does not change it.
AddNear(a, b, ta, tb) ==
    IF tb + 56 <= ta THEN a
    ELSE IF ta + 56 <= tb THEN b
    ELSE AddAt(a.s, BShl(a.m, a.e - Min(a.e, b.e)),
               b.s, BShl(b.m, b.e - Min(a.e, b.e)), Min(a.e, b.e))

Add(a, b) ==
    IF IsNaN(a) \/ IsNaN(b) THEN NaN
    ELSE IF IsInf(a) THEN (IF IsInf(b) /\ a.s # b.s THEN NaN ELSE a)
    ELSE IF IsInf(b) \/ IsZero(a) THEN b
    ELSE IF IsZero(b) THEN a
    ELSE AddNear(a, b, Top(a), Top(b))

Sub(a, b) == Add(a, Neg(b))

Mul(a, b) ==
    IF IsNaN(a) \/ IsNaN(b) THEN NaN
    ELSE IF IsInf(a) \/ IsInf(b)
         THEN (IF IsZero(a) \/ IsZero(b) THEN NaN
               ELSE IF a.s = b.s THEN Inf ELSE NegInf)
    ELSE IF IsZero(a) \/ IsZero(b) THEN Zero
    ELSE Round(a.s * b.s, BMul(a.m, b.m), a.e + b.e, FALSE)

\* a / b as the hardware and numpy compute it: x / 0 is an infinity and
\* 0 / 0 is NaN.  Python's own / raises instead, see TrueDiv.
Div(a, b) ==
    IF IsNaN(a) \/ IsNaN(b) \/ (IsInf(a) /\ IsInf(b)) \/ (IsZero(a) /\ IsZero(b))
    THEN NaN
    ELSE IF IsInf(b) \/ IsZero(a) THEN Zero
    ELSE IF IsInf(a) \/ IsZero(b) THEN (IF a.s = b.s THEN Inf ELSE NegInf)
    ELSE Ratio(a.s * b.s, a.m, b.m, a.e - b.e)

\* Python's max(0, x): x when x > 0, else the first argument, 0 (also for NaN).
Max0(x) == IF Gt(x, Zero) THEN x ELSE Zero

\* The number is whole.
IsWhole(a) == IsFin(a) /\ a.e >= 0

\* Bits to which the bounds of a power are computed.
PowBits == 150

\* The C library's pow may miss the exact power by less than PowSlack / 64
\* of the distance between two neighbouring floats, where correct rounding
\* misses by at most 32 / 64 (glibc states 0.54 of the distance).
PowSlack == 35

\* A positive number m * 2^e with m of any size, for the bounds of a power.
Wide(m, e) == [m |-> m, e |-> e]

\* m * 2^e cut to PowBits bits: a lower bound of it, an upper bound if up = 1.
WCut(m, e, up) ==
    IF BitLen(m) <= PowBits THEN Wide(m, e)
    ELSE Wide(BAdd(BShr(m, BitLen(m) - PowBits), BFromInt(up)),
              e + (BitLen(m) - PowBits))

WMul(x, y, up) == WCut(BMul(x.m, y.m), x.e + y.e, up)

\* The shift that gives m * 2^e an even exponent and twice PowBits bits.
WRootShift(m, e) ==
    Max(2 * PowBits - BitLen(m), 0) + ((e - Max(2 * PowBits - BitLen(m), 0)) % 2)

\* A bound of the square root of x.
WSqrt(x, up) ==
    Wide(BAdd(BSqrt(BShl(x.m, WRootShift(x.m, x.e))), BFromInt(up)),
         (x.e - WRootShift(x.m, x.e)) \div 2)

\* A bound of 1 / x.
WInv(x, up) ==
    Wide(BAdd(BDiv(BShl(<<1>>, BitLen(x.m) + PowBits), x.m).q, BFromInt(up)),
         -(x.e + BitLen(x.m) + PowBits))

\* x is beyond every float: above 2^2200 or below 2^-2200.
WFar(x) == x.e + BitLen(x.m) > 2200 \/ x.e + BitLen(x.m) < -2200

\* A bound of x^(2^k): x squared k times, or for k < 0 the square root taken
\* -k times; a power of x # 1 that is beyond every float is not taken further.
RECURSIVE WRepeat(_, _, _)
WRepeat(x, k, up) ==
    IF k = 0 \/ WFar(x) THEN x
    ELSE IF k = 1 THEN WMul(x, x, up)
    ELSE IF k = -1 THEN WSqrt(x, up)
    ELSE WRepeat(WRepeat(x, k \div 2, up), k - (k \div 2), up)

\* h^2, times x if odd, for the bound h of a power of x.
WNext(h, x, odd, up) == IF odd THEN WMul(WMul(h, h, up), x, up) ELSE WMul(h, h, up)

\* A bound of x^n for the natural number n >= 1, by squaring: h is the bound
\* of x to the bits of n above the lowest i.
RECURSIVE WPowerFrom(_, _, _, _, _)
WPowerFrom(h, x, n, i, up) ==
    IF i = 0 \/ WFar(h) THEN h
    ELSE WPowerFrom(WNext(h, x, Bit(n, i - 1) = 1, up), x, n, i - 1, up)

WPower(x, n, up) == WPowerFrom(x, x, n, BitLen(n) - 1, up)

\* A bound of |a|^|b| for finite a # 0 and b # 0: b is b.m * 2^b.e.
WPow(a, b, up) == WPower(WRepeat(Wide(a.m, a.e), b.e, up), b.m, up)

\* A bound of |a|^b: a lower bound, an upper bound if up = 1.
WBound(a, b, up) ==
    IF b.s > 0 THEN WPow(a, b, up) ELSE WInv(WPow(a, b, 1 - up), up)

\* The bits of m at the floats' spacing and below are cut off: 53 bits are
\* kept, fewer below 2^-1022.
WDrop(m, e) == Max(BitLen(m) - 53, -1074 - e)

\* The part of m * 2^e above the float below it, in 64ths of the floats'
\* spacing, rounded down.
WParts(m, drop) ==
    32 * Bit(m, drop - 1) + 16 * Bit(m, drop - 2) + 8 * Bit(m, drop - 3)
       + 4 * Bit(m, drop - 4) + 2 * Bit(m, drop - 5) + Bit(m, drop - 6)

\* The floats less than PowSlack / 64 of the spacing away from s * m * 2^e,
\* m of 64 bits or more: the float below it and the float above it.
WNear(s, m, e, drop) ==
    (IF WParts(m, drop) < PowSlack
     THEN {Fin(s, BShr(m, drop), e + drop)} ELSE {})
    \cup (IF WParts(m, drop) > 63 - PowSlack
          THEN {Fin(s, BAdd(BShr(m, drop), <<1>>), e + drop)} ELSE {})

\* The floats near s times the bound w.
WFloats(s, w) == WNear(s, BShl(w.m, 64), w.e - 64, WDrop(BShl(w.m, 64), w.e - 64))

\* The sign of a ** b: negative for a < 0 and an odd b.
PowSign(a, b) == IF a.s < 0 /\ b.e = 0 THEN -1 ELSE 1

\* The floats that pow(a, b) may be for finite a # 0 and b # 0, a > 0 or b
\* whole: those near a lower and an upper bound of the exact power.
PowNear(a, b) ==
    UNION {WFloats(PowSign(a, b), w) : w \in {WBound(a, b, up) : up \in {0, 1}}}

\* The C function pow(a, b), which Python's and numpy's ** on floats are: the
\* set of the floats it may return.  The C standard fixes the results for
\* infinite, zero and NaN arguments and for a = 1; for the rest the library
\* returns a float near the exact power, not always the nearest (glibc: within
\* 0.54 of the floats' spacing), so that a power near the middle between two
\* floats may be either.  A power with |b| < 2^-65 is within 2^-55 of 1.
Pow(a, b) ==
    IF IsZero(b) \/ a = One THEN {One}
    ELSE IF IsNaN(a) \/ IsNaN(b) THEN {NaN}
    ELSE IF IsInf(b)
         THEN (IF a = Neg(One) THEN {One}
               ELSE IF (b.s > 0) = (Top(a) >= 1) THEN {Inf}
               ELSE {Zero})
    ELSE IF IsInf(a) \/ IsZero(a)
         THEN (IF (b.s > 0) = IsInf(a)
               THEN (IF PowSign(a, b) < 0 THEN {NegInf} ELSE {Inf})
               ELSE {Zero})
    ELSE IF a.s < 0 /\ b.e < 0 THEN {NaN}
    ELSE IF a = Neg(One) THEN {IF b.e = 0 THEN a ELSE One}
    ELSE IF Top(b) < -64 THEN {One}
    ELSE PowNear(a, b)
(***************************************************************************)
(* pages/2_Loan_Calculator.py                                              *)
(***************************************************************************)

\* What a call produced: a value, or an exception of the named type.
Returned(v) == [status |-> "returned", value |-> v, error |-> "none"]

Raised(err) == [status |-> "raised", value |-> <<>>, error |-> err]

NoResult == [status |-> "none", value |-> <<>>, error |-> "none"]

\* Python's a / b on floats: ZeroDivisionError for b = 0.
TrueDiv(a, b) == IF IsZero(b) THEN Raised("ZeroDivisionError") ELSE Returned(Div(a, b))

\* numpy_financial.pmt(rate, nper, pv) with fv = 0 and when = 'end':
\*   temp = (1 + rate)**nper
\*   fact = nper where rate == 0, else (1 + rate * when) * (temp - 1) / rate
\*   -(fv + pv * temp) / fact
\* computed by numpy, which raises nothing: a division by zero is an infinity.
pmt_of(temp, rate, nper, pv) ==
    Neg(Div(Mul(pv, temp),
            IF Eq(rate, Zero) THEN nper
            ELSE Div(Mul(Add(One, Mul(rate, Zero)), Sub(temp, One)), rate)))

\* The payments it may return: one for each float that the power may be.
pmt(rate, nper, pv) ==
    {pmt_of(temp, rate, nper, pv) : temp \in Pow(Add(One, rate), nper)}

\* Variant: the terms are validated before the principal is looked at.
calculate_loan_payment_TermsFirst(p, a_rate, yrs, ppy) ==
    IF Lt(a_rate, Zero) THEN {Raised("ValueError")}
    ELSE IF Le(yrs, Zero) THEN {Raised("ValueError")}
    ELSE IF Le(ppy, Zero) THEN {Raised("ValueError")}
    ELSE IF Le(p, Zero) THEN {Returned(Zero)}
    ELSE IF Eq(a_rate, Zero) THEN {TrueDiv(p, Mul(yrs, ppy))}
    ELSE {Returned(Neg(payment)) : payment \in pmt(Div(a_rate, ppy), Mul(yrs, ppy), p)}

\* Variant: a term of zero years is accepted.
calculate_loan_payment_ZeroYears(p, a_rate, yrs, ppy) ==
    IF Le(p, Zero) THEN {Returned(Zero)}
    ELSE IF Lt(a_rate, Zero) THEN {Raised("ValueError")}
    ELSE IF Lt(yrs, Zero) THEN {Raised("ValueError")}
    ELSE IF Le(ppy, Zero) THEN {Raised("ValueError")}
    ELSE IF Eq(a_rate, Zero) THEN {TrueDiv(p, Mul(yrs, ppy))}
    ELSE {Returned(Neg(payment)) : payment \in pmt(Div(a_rate, ppy), Mul(yrs, ppy), p)}

\* calculate_loan_payment, lines 8-26: what the call may return or raise.
\* There is one outcome, or two where the power of line 23 is near the
\* middle between two floats.
calculate_loan_payment(p, a_rate, yrs, ppy) ==
    IF Le(p, Zero) THEN {Returned(Zero)}
    ELSE IF Lt(a_rate, Zero) THEN {Raised("ValueError")}
    ELSE IF Le(yrs, Zero) THEN {Raised("ValueError")}
    ELSE IF Le(ppy, Zero) THEN {Raised("ValueError")}
    ELSE IF Eq(a_rate, Zero) THEN {TrueDiv(p, Mul(yrs, ppy))}
    ELSE {Returned(Neg(payment)) : payment \in pmt(Div(a_rate, ppy), Mul(yrs, ppy), p)}

\* Variant: only a negative principal is no loan.
NoLoan_Negative(p) == Lt(p, Zero)

\* Line 31: the guard of calculate_amortization.
NoLoan(p) == Le(p, Zero)

\* Line 31: what calculate_amortization returns for it, six components.
EmptyResult == Returned(<<(<<>>), Zero, Zero, Zero, Zero, Zero>>)

\* Lines 38-39: the payment the schedule uses.
RegularPayment(payment, p, yrs, ppy) ==
    IF Eq(payment, Zero) /\ Gt(p, Zero) THEN TrueDiv(p, Mul(yrs, ppy))
    ELSE Returned(payment)

\* Variant: the extra payment is taken off the payment.
TotalPayment_Less(regular, extra) == Sub(regular, extra)

\* Lines 42 and 80.
TotalPayment(regular, extra) == Add(regular, extra)

\* Variant: the safety break is at the number of periods.
LoopCondition_NoSlack(balance, num, yrs, ppy) ==
    /\ Gt(balance, Float(1, <<5243, 3932, 27525, 163>>, -59) (* 0.01 *))
    /\ Lt(FromInt(num), Mul(yrs, ppy))

\* Variant: the safety break is at four times the number of periods.
LoopCondition_LateBreak(balance, num, yrs, ppy) ==
    /\ Gt(balance, Float(1, <<5243, 3932, 27525, 163>>, -59) (* 0.01 *))
    /\ Lt(FromInt(num), Mul(Mul(yrs, ppy), Float(1, <<1>>, 2) (* 4 *)))

\* Line 49: the loop condition.
LoopCondition(balance, num, yrs, ppy) ==
    /\ Gt(balance, Float(1, <<5243, 3932, 27525, 163>>, -59) (* 0.01 *))
    /\ Lt(FromInt(num), Mul(Mul(yrs, ppy), Float(1, <<1>>, 1) (* 2 *)))

\* Line 76: the loan is considered paid off.
PaidOff(balance) == Le(balance, Float(1, <<5243, 3932, 27525, 163>>, -59) (* 0.01 *))

\* Lines 67-74: a row of the schedule.
Row(num, start, payment, principal_paid, interest_paid, balance) ==
    [Payment_Num      |-> num,
     Starting_Balance |-> start,
     Payment          |-> payment,
     Principal_Paid   |-> principal_paid,
     Interest_Paid    |-> interest_paid,
     Ending_Balance   |-> balance]

\* Lines 50-80, the locals after an iteration and the row it appends.
\* Lines 67-74: the row, from the locals at the end of the iteration.
Iteration(num, payment, principal_paid, interest_paid, balance, interest_total) ==
    [payment_num         |-> num,
     total_payment       |-> payment,
     current_balance     |-> balance,
     total_interest_paid |-> interest_total,
     row |-> Row(num, Add(balance, principal_paid), payment, principal_paid,
                 interest_paid, balance)]

\* Lines 62-65: a balance below zero is pinned to zero and the overshoot
\* taken back from the principal paid.
PinBalance(num, payment, principal_paid, interest_paid, balance, interest_total) ==
    IF Lt(balance, Zero)
    THEN Iteration(num, payment, Add(principal_paid, balance), interest_paid, Zero,
                   interest_total)
    ELSE Iteration(num, payment, principal_paid, interest_paid, balance,
                   interest_total)

\* Lines 54-60: the last payment pays the balance and no more; the balance
\* and the interest total are updated.
AdjustLast(num, payment, principal_paid, interest_paid, balance, interest_total) ==
    IF Gt(principal_paid, balance)
    THEN PinBalance(num, Add(balance, interest_paid), balance, interest_paid,
                    Sub(balance, balance), Add(interest_total, interest_paid))
    ELSE PinBalance(num, payment, principal_paid, interest_paid,
                    Sub(balance, principal_paid), Add(interest_total, interest_paid))

\* Line 52, given the interest of line 51.
SplitPayment(num, payment, interest_paid, balance, interest_total) ==
    AdjustLast(num, payment, Sub(payment, interest_paid), interest_paid, balance,
               interest_total)

\* Lines 50-74: one iteration, from the locals before it.
LoopBody(balance, payment, p_rate, interest_total, num) ==
    SplitPayment(num + 1, payment, Mul(balance, p_rate), balance, interest_total)

\* A value of the column "Payment" as pandas adds it: Series.sum() skips
\* NaN, which is to add 0 for it.
PaymentOf(row) == IF IsNaN(row.Payment) THEN Zero ELSE row.Payment

\* sum + the payments of the rows i, i + step, ... up to row `last`
RECURSIVE SumFrom(_, _, _, _, _)
SumFrom(sum, rows, i, step, last) ==
    IF i > last THEN sum
    ELSE SumFrom(Add(sum, PaymentOf(rows[i])), rows, i + step, step, last)

\* The eight sums r are added in pairs, and the rows after the last full
\* block of eight, up to row `last`, are added to that in order.
SumBlocks(r, rows, full, last) ==
    SumFrom(Add(Add(Add(r[1], r[2]), Add(r[3], r[4])),
                Add(Add(r[5], r[6]), Add(r[7], r[8]))),
            rows, full + 1, 1, last)

\* numpy's pairwise sum of the payments of the n rows after row `first`.
\* Fewer than 8 rows are added from 0 in row order.  Of 8 to 128 rows, eight
\* sums run over the rows 1, 9, 17, ... to 8, 16, 24, ... of the full blocks
\* of eight.  More rows are split in two parts, the first of them half the
\* rows rounded down to a multiple of 8, and the sums of the parts added.
RECURSIVE SumPairwise(_, _, _)
SumPairwise(rows, first, n) ==
    IF n < 8 THEN SumFrom(Zero, rows, first + 1, 1, first + n)
    ELSE IF n <= 128
    THEN SumBlocks([j \in 1..8 |->
                       SumFrom(PaymentOf(rows[first + j]), rows, first + j + 8, 8,
                               first + n - (n % 8))],
                   rows, first + n - (n % 8), first + n)
    ELSE Add(SumPairwise(rows, first, (n \div 2) - ((n \div 2) % 8)),
             SumPairwise(rows, first + (n \div 2) - ((n \div 2) % 8),
                         n - ((n \div 2) - ((n \div 2) % 8))))

\* Line 84: the sum of the column "Payment", which pandas takes with numpy's
\* add.reduce.
SumPayment(rows) == SumPairwise(rows, 0, Len(rows))

\* Lines 83-86: indexing the "Payment" column of a data frame built from no
\* rows raises KeyError.
Summary(rows, regular, interest_total, num) ==
    IF rows = <<>> THEN Raised("KeyError")
    ELSE Returned(<<rows, regular, SumPayment(rows), interest_total, num>>)

(***************************************************************************)
(* pages/1_Interest_Calculator.py and Old/.../1_Interest_Calculator.py     *)
(***************************************************************************)

\* A Python value passed as an argument: an int, a float or a str.
PyInt(i) == [t |-> "int", v |-> FromInt(i), s |-> ""]

PyFloat(x) == [t |-> "float", v |-> x, s |-> ""]

PyStr(x) == [t |-> "str", v |-> Zero, s |-> x]

\* isinstance(arg, (int, float))
IsNumber(x) == x.t \in {"int", "float"}

\* isinstance(arg, int)
IsInt(x) == x.t = "int"

\* math.exp at the arguments the model reaches, as the C library gives it.
ExpTable ==
    { <<Float(1, <<8815, 19436, 21170, 57>>, -103) (* 2e-16 *),
        Float(1, <<1, 0, 0, 128>>, -52) (* 1.0000000000000002 *)>>,
      <<Float(1, <<19661, 6553, 13107, 102>>, -57) (* 0.025 *),
        Float(1, <<29329, 10199, 7875, 131>>, -52) (* 1.0253151205244289 *)>>,
      <<Float(1, <<19661, 6553, 13107, 102>>, -56) (* 0.05 *),
        Float(1, <<9267, 18501, 18438, 134>>, -52) (* 1.0512710963760241 *)>>,
      <<Float(1, <<1>>, -1) (* 0.5 *),
        Float(1, <<423, 18191, 24873, 52>>, -50) (* 1.6487212707001282 *)>>,
      <<Float(1, <<5>>, -3) (* 0.625 *),
        Float(1, <<911, 12028, 24133, 3>>, -46) (* 1.8682459574322223 *)>>,
      <<One,
        Float(1, <<22377, 5672, 31786, 173>>, -51) (* 2.718281828459045 *)>>,
      <<Float(1, <<5>>, -2) (* 1.25 *),
        Float(1, <<4015, 7606, 31502, 13>>, -47) (* 3.4903429574618414 *)>>,
      <<Float(1, <<1>>, 1) (* 2 *),
        Float(1, <<28375, 14548, 7369, 118>>, -49) (* 7.38905609893065 *)>>,
      <<Float(1, <<5>>, -1) (* 2.5 *),
        Float(1, <<24763, 12899, 30143, 194>>, -49) (* 12.182493960703473 *)>>,
      <<Float(1, <<9>>, -1) (* 4.5 *),
        Float(1, <<28501, 11745, 561, 90>>, -45) (* 90.01713130052181 *)>>,
      <<Float(1, <<9>>, 0) (* 9 *),
        Float(1, <<1985, 31815, 20010, 126>>, -39) (* 8103.083927575384 *)>>,
      <<Float(1, <<5>>, 1) (* 10 *),
        Float(1, <<10283, 23801, 12371, 5>>, -33) (* 22026.465794806718 *)>>,
      <<Float(1, <<9>>, 1) (* 18 *),
        Float(1, <<16573, 4658, 15496, 250>>, -27) (* 65659969.13733051 *)>>,
      <<Float(1, <<5>>, 2) (* 20 *),
        Float(1, <<14849, 17844, 27400, 57>>, -22) (* 485165195.4097903 *)>>,
      <<Float(1, <<25>>, 0) (* 25 *),
        Float(1, <<25289, 9234, 3918, 134>>, -16) (* 72004899337.38588 *)>>,
      <<Float(1, <<26215, 19660, 6553, 140>>, -47) (* 35.050000000000004 *),
        Float(1, <<5241, 21271, 18136, 189>>, -2) (* 1667330100880670.2 *)>>,
      <<Float(1, <<45>>, 1) (* 90 *),
        Float(1, <<12377, 32735, 12552, 57>>, 79) (* 1.2204032943178408e+39 *)>>,
      <<Float(1, <<45>>, 2) (* 180 *),
        Float(1, <<2181, 22075, 26252, 205>>, 207) (* 1.4893842007818383e+78 *)>>,
      <<Float(1, <<25>>, 4) (* 400 *),
        Float(1, <<1473, 27624, 25496, 33>>, 527) (* 5.221469689764144e+173 *)>>,
      <<Float(1, <<125>>, 2) (* 500 *),
        Float(1, <<25657, 21487, 28298, 162>>, 669) (* 1.4035922178528375e+217 *)>> }

\* exp(x) is 1.0 for 0 <= x <= 2^-54, where it is below 1 + 2^-53.
ExpIsOne(x) == Ge(x, Zero) /\ Le(x, Float(1, <<1>>, -54) (* 5.551115123125783e-17 *))

ExpKnown(x) == ~IsFin(x) \/ ExpIsOne(x) \/ \E row \in ExpTable : row[1] = x

Exp(x) ==
    IF IsNaN(x) THEN NaN
    ELSE IF IsInf(x) THEN (IF x.s > 0 THEN Inf ELSE Zero)
    ELSE IF ExpIsOne(x) THEN One
    ELSE (CHOOSE row \in ExpTable : row[1] = x)[2]

\* math.log at the arguments the model reaches, all of them positive, as the
\* C library gives it.
LogTable ==
    { <<Float(1, <<15567, 20989, 143, 32>>, -50) (* 1.0001369863013698 *),
        Float(1, <<27819, 3932, 20667, 143>>, -65) (* 0.00013697691960321465 *)>>,
      <<Float(1, <<28735, 32263, 4032, 128>>, -52) (* 1.0009615384615385 *),
        Float(1, <<10835, 398, 16140, 31>>, -60) (* 0.000961076479550532 *)>>,
      <<Float(1, <<28735, 32263, 4032, 64>>, -51) (* 1.001923076923077 *),
        Float(1, <<20375, 12814, 29810, 125>>, -61) (* 0.0019212301778938723 *)>>,
      <<Float(1, <<16429, 26573, 2872, 32>>, -50) (* 1.0027397260273974 *),
        Float(1, <<21479, 30221, 9999, 179>>, -61) (* 0.0027359798188748455 *)>>,
      <<Float(1, <<4369, 8738, 17476, 128>>, -52) (* 1.0041666666666667 *),
        Float(1, <<28221, 22957, 4090, 68>>, -59) (* 0.004158010148663677 *)>>,
      <<Float(1, <<12603, 30247, 20164, 32>>, -50) (* 1.0192307692307692 *),
        Float(1, <<22653, 14793, 701, 78>>, -57) (* 0.01904819497069441 *)>>,
      <<Float(1, <<12389, 27022, 6463, 8>>, -48) (* 1.0246575342465754 *),
        Float(1, <<28063, 32030, 17837, 199>>, -58) (* 0.02435844383204044 *)>>,
      <<Float(1, <<2521, 12603, 30247, 132>>, -52) (* 1.0384615384615385 *),
        Float(1, <<14441, 17626, 9574, 77>>, -56) (* 0.03774032798284711 *)>>,
      <<Float(1, <<19661, 6553, 13107, 134>>, -52) (* 1.05 *),
        Float(1, <<11391, 18398, 16065, 12>>, -53) (* 0.04879016416943205 *)>>,
      <<Float(1, <<21845, 10922, 21845, 138>>, -52) (* 1.0833333333333333 *),
        Float(1, <<23871, 19389, 31579, 81>>, -55) (* 0.08004270767353636 *)>>,
      <<Float(1, <<10923, 21845, 10922, 141>>, -52) (* 1.1041666666666667 *),
        Float(1, <<9931, 29792, 30741, 202>>, -56) (* 0.09909090264423097 *)>>,
      <<Float(1, <<27727, 7561, 5041, 150>>, -52) (* 1.1730769230769231 *),
        Float(1, <<15173, 23473, 28354, 40>>, -53) (* 0.15963014559188393 *)>>,
      <<Float(1, <<27727, 7561, 5041, 86>>, -51) (* 1.3461538461538463 *),
        Float(1, <<25571, 16638, 3158, 76>>, -53) (* 0.2972515234679317 *)>>,
      <<Float(1, <<3>>, -1) (* 1.5 *),
        Float(1, <<26131, 30303, 29475, 51>>, -52) (* 0.4054651081081644 *)>>,
      <<Float(1, <<13>>, -3) (* 1.625 *),
        Float(1, <<1773, 16222, 19005, 248>>, -54) (* 0.4855078157817008 *)>>,
      <<Float(1, <<7>>, -2) (* 1.75 *),
        Float(1, <<1037, 27598, 31255, 8>>, -49) (* 0.5596157879354227 *)>>,
      <<Float(1, <<1>>, 1) (* 2 *),
        Float(1, <<14831, 32244, 14603, 177>>, -53) (* 0.6931471805599453 *)>>,
      <<Float(1, <<9>>, -2) (* 2.25 *),
        Float(1, <<26131, 30303, 29475, 51>>, -51) (* 0.8109302162163288 *)>>,
      <<Float(1, <<11>>, -1) (* 5.5 *),
        Float(1, <<2701, 24312, 26836, 6>>, -47) (* 1.7047480922384253 *)>>,
      <<Float(1, <<5>>, 1) (* 10 *),
        Float(1, <<10891, 15285, 22371, 73>>, -50) (* 2.302585092994046 *)>>,
      <<Float(1, <<125>>, 3) (* 1000 *),
        Float(1, <<32765, 10648, 29745, 6>>, -45) (* 6.907755278982137 *)>> }

LogKnown(x) == IsNaN(x) \/ x = Inf \/ x = One \/ \E row \in LogTable : row[1] = x

Log(x) ==
    IF IsNaN(x) \/ x = Inf THEN x
    ELSE IF x = One THEN Zero
    ELSE (CHOOSE row \in LogTable : row[1] = x)[2]

\* The calculation left its normal path: an overflow check fired (return of
\* infinities) or a float power raised OverflowError (caught, same return).
Overflowed == [k |-> "overflow", s |-> 1, m |-> <<>>, e |-> 0]

\* A float power raised ZeroDivisionError.
DividedByZero == [k |-> "zerodivision", s |-> 1, m |-> <<>>, e |-> 0]

\* A float power gave a complex number, which max(0, ...) does not accept.
ComplexPower == [k |-> "complex", s |-> 1, m |-> <<>>, e |-> 0]

\* The value is one of the three above, not a float.
OffPath(x) == x \in {Overflowed, DividedByZero, ComplexPower}

\* float_pow hands a finite negative base with a fractional exponent to the
\* complex power, which takes the C library's power of the magnitude.
IsComplexPower(base, exponent) ==
    /\ IsFin(base) /\ IsFin(exponent) /\ ~IsZero(base)
    /\ base.s < 0 /\ exponent.e < 0

\* base ** exponent on Python floats, given the power of the C library (of
\* the magnitude, for the complex power): for finite operands and
\* exponent # 0, ZeroDivisionError for 0.0 to a negative power,
\* OverflowError when the power is out of range, and a complex number for a
\* negative base with a fractional exponent.
PyPowOf(base, exponent, power) ==
    IF ~(IsFin(base) /\ IsFin(exponent)) \/ IsZero(exponent) THEN power
    ELSE IF IsZero(base) /\ exponent.s < 0 THEN DividedByZero
    ELSE IF IsInf(power) THEN Overflowed
    ELSE IF IsComplexPower(base, exponent) THEN ComplexPower
    ELSE power

\* What base ** exponent may be: one outcome for each float that the power
\* of the C library may be.
PyPow(base, exponent) ==
    {PyPowOf(base, exponent, power) :
        power \in Pow(IF IsComplexPower(base, exponent) THEN Neg(base) ELSE base,
                      exponent)}

\* A product with a factor that may have left the normal path.
Times(x, factor) == IF OffPath(factor) THEN factor ELSE Mul(x, factor)

\* Line 55 of Old/.../1_Interest_Calculator.py: the overflow check.
compound_overflows(base, exponent) ==
    Gt(Mul(exponent, Log(IF Gt(base, Zero) THEN base ELSE One)), Float(1, <<175>>, 2) (* 700 *))

\* Lines 41-61: what final_amount may be.
compound_final(p, r, t, continuous, n) ==
    IF continuous
    THEN IF Eq(r, Zero) THEN {p}
         ELSE IF Gt(Mul(r, t), Float(1, <<175>>, 2) (* 700 *)) THEN {Overflowed}
         ELSE {Mul(p, Exp(Mul(r, t)))}
    ELSE IF compound_overflows(Add(One, Div(r, n)), Mul(n, t)) THEN {Overflowed}
         ELSE {Times(p, power) : power \in PyPow(Add(One, Div(r, n)), Mul(n, t))}

\* Lines 59-68: the interest and the result, from final_amount.  The
\* handler of line 67 turns ZeroDivisionError, and the TypeError that max
\* raises for a complex number, into Exception.
compound_result(p, final_amount) ==
    IF final_amount = Overflowed THEN Returned(<<Inf, Inf>>)
    ELSE IF OffPath(final_amount) THEN Raised("Exception")
    ELSE Returned(<<final_amount, Max0(Sub(final_amount, p))>>)

\* Lines 24-38: the number of compounding periods (0 for continuous), or the
\* error the validation raises.
compound_periods(compound_type, num_times) ==
    IF compound_type = PyStr("continuously") THEN Returned(Zero)
    ELSE IF IsInt(compound_type)
         THEN (IF Le(compound_type.v, Zero) THEN Raised("ValueError")
               ELSE Returned(compound_type.v))
    ELSE IF compound_type = PyStr("annually") THEN Returned(One)
    ELSE IF ~IsInt(num_times) \/ Le(num_times.v, Zero) THEN Raised("ValueError")
    ELSE Returned(num_times.v)

compound_calculation(p, r, t, compound_type, periods) ==
    IF periods.status = "raised" THEN {periods}
    ELSE {compound_result(p, final_amount) :
             final_amount \in compound_final(p, r, t,
                                             compound_type = PyStr("continuously"),
                                             periods.value)}

\* Lines 13-22: the error the checks of principal, rate and time raise.
compound_validation(p, r, t) ==
    IF ~(IsNumber(p) /\ IsNumber(r) /\ IsNumber(t)) THEN "TypeError"
    ELSE IF Lt(p.v, Zero) \/ Lt(r.v, Zero) \/ Lt(t.v, Zero) THEN "ValueError"
    ELSE "none"

\* compound_interest, Old/.../1_Interest_Calculator.py lines 7-68: what the
\* call may return or raise.
compound_interest(p, r, t, compound_type, num_times) ==
    IF compound_validation(p, r, t) # "none"
    THEN {Raised(compound_validation(p, r, t))}
    ELSE compound_calculation(p.v, r.v, t.v, compound_type,
                              compound_periods(compound_type, num_times))

\* Line 80 of pages/1_Interest_Calculator.py: the heuristic check.
fv_checks_overflow(base, exponent) ==
    Gt(exponent, Float(1, <<625>>, 4) (* 10000 *)) /\ Gt(base,
            Float(1, <<25145, 31834, 20, 64>>, -51) (* 1.00001 *))

\* Lines 80-84: the overflow check.
fv_overflows(p, base, exponent) ==
    /\ fv_checks_overflow(base, exponent)
    /\ Gt(Add(Log(IF Gt(p, Zero) THEN p ELSE One),
              Mul(exponent, Log(IF Gt(base, One) THEN base ELSE One))),
          Float(1, <<175>>, 2) (* 700 *))

\* Lines 80-87: the discrete principal term, power being what
\* base ** exponent gives.
discrete_principal_fv(p, base, exponent, power) ==
    IF fv_overflows(p, base, exponent) THEN Overflowed
    ELSE Times(p, power)

\* Lines 59-87: 1. Future Value of the Initial Principal.
principal_fv(p, r, t, continuous, n, power) ==
    IF ~Gt(p, Zero) THEN Zero
    ELSE IF continuous
    THEN IF Eq(r, Zero) THEN p
         ELSE IF Gt(Mul(r, t), Float(1, <<175>>, 2) (* 700 *)) THEN Overflowed
         ELSE Mul(p, Exp(Mul(r, t)))
    ELSE IF Eq(r, Zero) THEN p
    ELSE discrete_principal_fv(p, Add(One, Div(r, n)), Mul(n, t), power)

\* Line 93: contributions are made.
Contributes(t, amount, freq) == Gt(amount, Zero) /\ Gt(freq, Zero) /\ Gt(t, Zero)

\* Lines 92-94.
total_contributions(t, amount, freq) ==
    IF Contributes(t, amount, freq) THEN Mul(Mul(amount, freq), t) ELSE Zero

\* Line 115.
fv_factor(power, p_rate) ==
    IF OffPath(power) THEN power ELSE Div(Sub(power, One), p_rate)

\* Lines 116-119.
discrete_annuity_fv(amount, factor) ==
    IF OffPath(factor) THEN factor
    ELSE IF Mul(amount, factor) = Inf \/ factor = Inf THEN Overflowed
    ELSE Mul(amount, factor)

\* Lines 90-119: 2. Future Value of the Contributions (Annuity), power being
\* what (1 + periodic_rate) ** num_total_periods gives.
annuity_fv(r, t, continuous, n, amount, freq, power) ==
    IF ~Contributes(t, amount, freq) THEN Zero
    ELSE IF continuous
    THEN IF Eq(r, Zero) THEN Mul(Mul(amount, freq), t)
         ELSE IF Gt(Mul(r, t), Float(1, <<175>>, 2) (* 700 *)) THEN Overflowed
         ELSE Div(Mul(Mul(amount, freq), Sub(Exp(Mul(r, t)), One)), r)
    ELSE IF Eq(Div(r, n), Zero) THEN Mul(amount, Mul(n, t))
    ELSE discrete_annuity_fv(amount, fv_factor(power, Div(r, n)))

\* The (inf, inf, inf) of lines 67, 84, 103, 119, 130 and 135.
Infinities == Returned(<<Inf, Inf, Inf>>)

\* Lines 124-132, from final_amount.
fv_result(p, final_amount, contributions) ==
    IF final_amount = Inf THEN Infinities
    ELSE Returned(<<final_amount, Max0(Sub(Sub(final_amount, p), contributions)),
                    contributions>>)

\* Lines 121-140, from the two terms, which hold the same power when both
\* hold one: the handler of line 138 turns ZeroDivisionError into Exception,
\* and max raises TypeError for a complex number (line 136 raises it again).
fv_total(p, p_fv, a_fv, contributions) ==
    IF p_fv = Overflowed \/ a_fv = Overflowed THEN Infinities
    ELSE IF p_fv = DividedByZero \/ a_fv = DividedByZero THEN Raised("Exception")
    ELSE IF p_fv = ComplexPower \/ a_fv = ComplexPower THEN Raised("TypeError")
    ELSE fv_result(p, Add(p_fv, a_fv), contributions)

\* Lines 57-140, power being what the power of lines 87 and 115 gives: both
\* have the operands 1 + rate / n_compound and n_compound * time.
fv_calculation(p, r, t, continuous, n, amount, freq, power) ==
    fv_total(p, principal_fv(p, r, t, continuous, n, power),
             annuity_fv(r, t, continuous, n, amount, freq, power),
             total_contributions(t, amount, freq))

\* Line 87 or line 115 is reached: the compounding is discrete, line 84 has
\* not returned, and there is a principal at interest or a contribution at
\* interest.
fv_takes_power(p, r, t, continuous, n, amount, freq) ==
    /\ ~continuous
    /\ \/ /\ Gt(p, Zero) /\ ~Eq(r, Zero)
          /\ ~fv_overflows(p, Add(One, Div(r, n)), Mul(n, t))
       \/ /\ ~(Gt(p, Zero) /\ ~Eq(r, Zero))
          /\ Contributes(t, amount, freq) /\ ~Eq(Div(r, n), Zero)

\* What the power of lines 87 and 115 may give, where one is taken.
fv_powers(p, r, t, continuous, n, amount, freq) ==
    IF fv_takes_power(p, r, t, continuous, n, amount, freq)
    THEN PyPow(Add(One, Div(r, n)), Mul(n, t))
    ELSE {One}

\* Lines 46-54: n_compound.
n_compound(compound_type) ==
    IF compound_type # PyStr("continuously") /\ IsInt(compound_type)
    THEN compound_type.v ELSE One

\* Variant: a negative contribution frequency is accepted.
fv_validation_AnyFrequency(p, r, t, compound_type, amount, freq) ==
    IF ~(IsNumber(p) /\ IsNumber(r) /\ IsNumber(t) /\ IsNumber(amount))
    THEN "TypeError"
    ELSE IF ~IsInt(freq) THEN "TypeError"
    ELSE IF Lt(p.v, Zero) \/ Lt(r.v, Zero) \/ Lt(t.v, Zero) THEN "ValueError"
    ELSE IF Lt(amount.v, Zero) THEN "ValueError"
    ELSE IF compound_type # PyStr("continuously") /\ IsInt(compound_type)
            /\ Le(compound_type.v, Zero)
    THEN "ValueError"
    ELSE "none"

\* Lines 34-53: the error the input validation raises.
fv_validation(p, r, t, compound_type, amount, freq) ==
    IF ~(IsNumber(p) /\ IsNumber(r) /\ IsNumber(t) /\ IsNumber(amount))
    THEN "TypeError"
    ELSE IF ~IsInt(freq) THEN "TypeError"
    ELSE IF Lt(p.v, Zero) \/ Lt(r.v, Zero) \/ Lt(t.v, Zero) THEN "ValueError"
    ELSE IF Lt(amount.v, Zero) \/ Lt(freq.v, Zero) THEN "ValueError"
    ELSE IF compound_type # PyStr("continuously") /\ IsInt(compound_type)
            /\ Le(compound_type.v, Zero)
    THEN "ValueError"
    ELSE "none"

\* future_value_with_contributions, pages/1_Interest_Calculator.py lines
\* 6-140: what the call may return or raise.
future_value_with_contributions(p, r, t, compound_type, amount, freq) ==
    IF fv_validation(p, r, t, compound_type, amount, freq) # "none"
    THEN {Raised(fv_validation(p, r, t, compound_type, amount, freq))}
    ELSE {fv_calculation(p.v, r.v, t.v, compound_type = PyStr("continuously"),
                         n_compound(compound_type), amount.v, freq.v, power) :
             power \in fv_powers(p.v, r.v, t.v,
                                  compound_type = PyStr("continuously"),
                                  n_compound(compound_type), amount.v, freq.v)}

\* Lines 209-221 of the page: contribution_frequency.
contribution_frequency(f) ==
    IF f.selected_contrib_freq = PyStr("match")
    THEN (IF f.compound_input = PyStr("continuously") THEN PyInt(12)
          ELSE f.compound_input)
    ELSE f.selected_contrib_freq

\* Lines 228-240: contribution_per_compound_period.
contribution_per_compound_period(f) ==
    IF f.compound_input # PyStr("continuously") /\ Gt(f.contribution_amount, Zero)
    THEN PyFloat(Div(Mul(f.contribution_amount, contribution_frequency(f).v),
                     f.compound_input.v))
    ELSE IF f.compound_input = PyStr("continuously")
    THEN PyFloat(f.contribution_amount)
    ELSE PyInt(0)

\* Lines 215-239: the st.info notices written before the call, one when
\* continuous compounding takes the monthly contribution frequency and one
\* when a contribution is spread over the compounding periods.
Notices(f) ==
    (IF f.selected_contrib_freq = PyStr("match")
        /\ f.compound_input = PyStr("continuously")
     THEN <<"info">> ELSE <<>>)
    \o (IF f.compound_input # PyStr("continuously")
           /\ Gt(f.contribution_amount, Zero)
           /\ f.selected_contrib_freq # PyStr("match")
        THEN <<"info">> ELSE <<>>)

\* Lines 250-270: the arguments of the page's call.
PageArgs(f) ==
    [principal |-> PyFloat(f.principal),
     rate |-> PyFloat(Div(f.rate_percent, Float(1, <<25>>, 2) (* 100 *))),
     time |-> PyFloat(f.time),
     compound_type |-> f.compound_input,
     contribution_amount |-> contribution_per_compound_period(f),
     contribution_frequency |-> IF f.compound_input # PyStr("continuously")
                                THEN f.compound_input
                                ELSE contribution_frequency(f),
     num_times |-> PyInt(1)]

\* The call with an argument record.
fv_call(a) ==
    future_value_with_contributions(a.principal, a.rate, a.time, a.compound_type,
                                    a.contribution_amount, a.contribution_frequency)

\* Lines 262-264: total_interest as the page recomputes it.
PageInterest(f, final_amount) ==
    Max0(Sub(Sub(final_amount, f.principal),
             Mul(Mul(f.contribution_amount, contribution_frequency(f).v), f.time)))

\* Lines 254-272: final_amount, total_interest, total_contributions.
PageOut(f, value) ==
    [final_amount |-> value[1],
     total_interest |-> IF f.compound_input # PyStr("continuously")
                        THEN PageInterest(f, value[1]) ELSE value[2],
     total_contributions |-> value[3]]

\* Lines 294-300: the pie chart is drawn.
HasChart(f, o) ==
    /\ Gt(o.final_amount, Zero) /\ o.final_amount # Inf
    /\ \/ Gt(f.principal, Float(1, <<5243, 3932, 27525, 163>>, -60) (* 0.005 *))
       \/ Gt(o.total_contributions, Float(1, <<5243, 3932, 27525, 163>>, -60) (* 0.005 *))
       \/ Gt(o.total_interest, Float(1, <<5243, 3932, 27525, 163>>, -60) (* 0.005 *))

\* Lines 275-315: what the page renders for a result.
Rendered(f, o) ==
    IF o.final_amount = Inf THEN <<"warning">>
    ELSE IF HasChart(f, o) THEN <<"metrics", "chart">>
    ELSE <<"metrics">>

(***************************************************************************)
(* State: the call in progress and the page around it.                     *)
(***************************************************************************)
VARIABLES
    entry,                \* what the caller runs: a function, or a page's submit
    pc,                   \* position in it
    run,                  \* who called calculate_amortization: "direct", "base", "extra"
    ret,                  \* outcome of the last finished call
    \* arguments of calculate_loan_payment / calculate_amortization
    principal, annual_rate, years, payments_per_year, extra_payment,
    \* locals of calculate_amortization
    regular_payment, periodic_rate, total_payment, schedule, current_balance,
    total_interest_paid, payment_num,
    \* widgets and locals of the loan page
    loan_principal, loan_rate_percent, loan_years, selected_freq, extra_payment_input,
    base_schedule_df, base_payment, base_total_paid, base_total_interest,
    base_num_payments,
    extra_schedule_df, extra_total_paid, extra_total_interest, extra_num_payments,
    payments_saved, interest_saved, schedule_to_display,
    shown,                \* what the page rendered, in order
    args,                 \* arguments of the growth function called
    form,                 \* widgets of the interest page
    out                   \* the interest page's final_amount, total_interest, ...

frame_vars == <<principal, annual_rate, years, payments_per_year, extra_payment>>

local_vars == <<regular_payment, periodic_rate, total_payment, schedule,
                current_balance, total_interest_paid, payment_num>>

widget_vars == <<loan_principal, loan_rate_percent, loan_years, selected_freq,
                 extra_payment_input>>

base_vars == <<base_schedule_df, base_payment, base_total_paid, base_total_interest,
               base_num_payments>>

extra_vars == <<extra_schedule_df, extra_total_paid, extra_total_interest,
                extra_num_payments, payments_saved, interest_saved>>

growth_vars == <<args, form, out>>

vars == <<entry, pc, run, ret, frame_vars, local_vars, widget_vars, base_vars,
          extra_vars, schedule_to_display, shown, growth_vars>>

\* Largest years * payments_per_year of an input.
MaxPeriods == 3

\* Largest years * payments_per_year of an input with a positive rate.
MaxInterestPeriods == 2

PrincipalArgs == {Float(-1, <<1>>, 0) (* -1 *),
                  Zero, Float(1, <<5243, 3932, 27525, 163>>, -60) (* 0.005 *),
                  One, Float(1, <<7>>, 0) (* 7 *), Float(1, <<25>>, 2) (* 100 *)}

RateArgs == {Float(-1, <<1>>, -1) (* -0.5 *),
             Zero, Float(1, <<16931, 6436, 29316, 188>>, -119) (* 1e-20 *),
             Float(1, <<1>>, -1) (* 0.5 *), One, Float(1, <<3>>, 0) (* 3 *),
             Float(1, <<9>>, 0) (* 9 *),
             Float(1, <<12589, 22487, 20017, 83>>, 613) (* 1e200 *)}

YearsArgs == {Float(-1, <<1>>, 0) (* -1 *),
              Zero, Float(1, <<15851, 2727, 32402, 48>>, -715) (* 1e-200 *),
              Float(1, <<1>>, -1) (* 0.5 *), Float(1, <<3>>, -2) (* 0.75 *),
              One, Float(1, <<3>>, -1) (* 1.5 *), Float(1, <<1>>, 1) (* 2 *),
              Float(1, <<3>>, 0) (* 3 *), Float(1, <<9>>, 1) (* 18 *)}

PpyArgs == {Float(-1, <<1>>, 0) (* -1 *),
            Zero, Float(1, <<15851, 2727, 32402, 48>>, -715) (* 1e-200 *),
            One, Float(1, <<1>>, 1) (* 2 *)}

ExtraArgs == {Float(-1, <<1>>, 0) (* -1 *),
              Zero, Float(1, <<9175, 31457, 23592, 126>>, -53) (* 0.495 *), One}

\* The page's number inputs have min_value = 0.0 (lines 101-152).
LoanPrincipalInputs == {Zero, Float(1, <<5243, 3932, 27525, 163>>, -60) (* 0.005 *),
                        One, Float(1, <<25>>, 2) (* 100 *)}

RatePercentInputs == {Zero, Float(1, <<25>>, 1) (* 50 *), Float(1, <<25>>, 2) (* 100 *),
                      Float(1, <<75>>, 2) (* 300 *), Float(1, <<225>>, 2) (* 900 *),
                      Float(1, <<8811, 26784, 10518, 65>>, 620) (* 1e202 *)}

LoanYearsInputs == {Zero, Float(1, <<1>>, -1) (* 0.5 *), One, Float(1, <<3>>, -1) (* 1.5 *),
                    Float(1, <<1>>, 1) (* 2 *), Float(1, <<3>>, 0) (* 3 *),
                    Float(1, <<9>>, 1) (* 18 *)}

\* Lines 128-135: payment_freq_options.
payment_freq_options == {Float(1, <<3>>, 2) (* 12 *), Float(1, <<13>>, 1) (* 26 *),
                         Float(1, <<13>>, 2) (* 52 *), Float(1, <<1>>, 2) (* 4 *),
                         Float(1, <<1>>, 1) (* 2 *), One}

ExtraInputs == {Zero, Float(1, <<9175, 31457, 23592, 126>>, -53) (* 0.495 *), One}

\* A loan of at most one currency unit over 18 periods at 900% a period,
\* taken without extra payments: (1 + rate)**nper is 1e18, and 1e18 - 1 is
\* 1e18 in floating point (line 22, numpy_financial.pmt).
LongTerm(p, a_rate, yrs, ppy) ==
    /\ Gt(p, Zero) /\ Le(p, One) /\ Gt(ppy, Zero)
    /\ Add(One, Div(a_rate, ppy)) = Float(1, <<5>>, 1) (* 10 *)
    /\ Mul(yrs, ppy) = Float(1, <<9>>, 1) (* 18 *)

\* The loans the model computes besides: at most MaxPeriods periods, at most
\* MaxInterestPeriods of them at interest, or a long term.
Computable(p, a_rate, yrs, ppy) ==
    \/ /\ Le(Mul(yrs, ppy), FromInt(MaxPeriods))
       /\ Gt(a_rate, Zero) => Le(Mul(yrs, ppy), FromInt(MaxInterestPeriods))
    \/ LongTerm(p, a_rate, yrs, ppy)

\* Whole loans, as <<principal, annual rate in percent, years, payments a
\* year>>: the values of the page's widgets when it opens (lines 101-148);
\* a mortgage of 360 payments; ten yearly payments; and loans whose power
\* of line 23 is near the middle between two floats: 1.11555 ** 2, and
\* 3 ** 34, which is exactly there.
WholeLoans == {<<Float(1, <<3125>>, 3) (* 25000 *), Float(1, <<13>>, -1) (* 6.5 *),
               Float(1, <<5>>, 0) (* 5 *), Float(1, <<3>>, 2) (* 12 *)>>,
               <<Float(1, <<3125>>, 6) (* 200000 *), Float(1, <<1>>, 2) (* 4 *),
                   Float(1, <<15>>, 1) (* 30 *), Float(1, <<3>>, 2) (* 12 *)>>,
               <<Float(1, <<125>>, 3) (* 1000 *), Float(1, <<5>>, 0) (* 5 *),
                   Float(1, <<5>>, 1) (* 10 *), One>>,
               <<Float(1, <<25>>, 2) (* 100 *),
                   Float(1, <<9175, 31457, 7208, 46>>, -46) (* 23.11 *),
                   One, Float(1, <<1>>, 1) (* 2 *)>>,
               <<One, Float(1, <<25>>, 3) (* 200 *), Float(1, <<17>>, 1) (* 34 *), One>>}

NoFrame ==
    /\ principal = Zero /\ annual_rate = Zero /\ years = Zero
    /\ payments_per_year = Zero /\ extra_payment = Zero

NoLocals ==
    /\ regular_payment = Zero /\ periodic_rate = Zero /\ total_payment = Zero
    /\ schedule = <<>> /\ current_balance = Zero /\ total_interest_paid = Zero
    /\ payment_num = 0

NoWidgets ==
    /\ loan_principal = Zero /\ loan_rate_percent = Zero /\ loan_years = Zero
    /\ selected_freq = Zero /\ extra_payment_input = Zero

NoPageLocals ==
    /\ base_schedule_df = <<>> /\ base_payment = Zero /\ base_total_paid = Zero
    /\ base_total_interest = Zero /\ base_num_payments = 0
    /\ extra_schedule_df = <<>> /\ extra_total_paid = Zero
    /\ extra_total_interest = Zero /\ extra_num_payments = 0
    /\ payments_saved = 0 /\ interest_saved = Zero
    /\ schedule_to_display = <<>> /\ shown = <<>>

NoArgs == [principal |-> PyInt(0), rate |-> PyInt(0), time |-> PyInt(0),
           compound_type |-> PyInt(1), contribution_amount |-> PyInt(0),
           contribution_frequency |-> PyInt(0), num_times |-> PyInt(1)]

NoForm == [principal |-> Zero, rate_percent |-> Zero, time |-> Zero,
           compound_input |-> PyInt(1), contribution_amount |-> Zero,
           selected_contrib_freq |-> PyStr("match")]

NoOut == [final_amount |-> Zero, total_interest |-> Zero,
          total_contributions |-> Zero]

NoGrowth == args = NoArgs /\ form = NoForm /\ out = NoOut

\* A direct call of calculate_loan_payment with any arguments.
InitLoanPayment ==
    /\ entry = "calculate_loan_payment" /\ pc = "call" /\ run = "direct"
    /\ \/ /\ principal \in PrincipalArgs /\ annual_rate \in RateArgs
          /\ years \in YearsArgs \cup {Inf} /\ payments_per_year \in PpyArgs
          /\ years = Inf
                \/ Computable(principal, annual_rate, years, payments_per_year)
       \/ \E loan \in WholeLoans :
             /\ principal = loan[1] /\ annual_rate = Div(loan[2], Float(1, <<25>>, 2) (* 100 *))
             /\ years = loan[3] /\ payments_per_year = loan[4]
    /\ extra_payment = Zero
    /\ NoWidgets /\ NoGrowth

\* A direct call of calculate_amortization with any arguments.
InitAmortization ==
    /\ entry = "calculate_amortization" /\ pc = "call" /\ run = "direct"
    /\ \/ /\ principal \in PrincipalArgs /\ annual_rate \in RateArgs
          /\ years \in YearsArgs /\ payments_per_year \in PpyArgs
          /\ Computable(principal, annual_rate, years, payments_per_year)
       \/ \E loan \in WholeLoans :
             /\ principal = loan[1] /\ annual_rate = Div(loan[2], Float(1, <<25>>, 2) (* 100 *))
             /\ years = loan[3] /\ payments_per_year = loan[4]
    /\ extra_payment \in ExtraArgs
    /\ LongTerm(principal, annual_rate, years, payments_per_year)
          => extra_payment = Zero
    /\ NoWidgets /\ NoGrowth

\* The loan page with its form filled in, about to be submitted.
InitLoanPage ==
    /\ entry = "loan_page" /\ pc = "submit" /\ run = "base"
    /\ \/ /\ loan_principal \in LoanPrincipalInputs
          /\ loan_rate_percent \in RatePercentInputs
          /\ loan_years \in LoanYearsInputs
          /\ selected_freq \in payment_freq_options
          /\ Computable(loan_principal, Div(loan_rate_percent, Float(1, <<25>>, 2) (* 100 *)),
                        loan_years, selected_freq)
       \/ \E loan \in WholeLoans :
             /\ loan_principal = loan[1] /\ loan_rate_percent = loan[2]
             /\ loan_years = loan[3] /\ selected_freq = loan[4]
    /\ extra_payment_input \in ExtraInputs
    /\ LongTerm(loan_principal, Div(loan_rate_percent, Float(1, <<25>>, 2) (* 100 *)), loan_years,
                selected_freq)
          => extra_payment_input = Zero
    /\ NoFrame /\ NoGrowth

\* Arguments of the growth functions that pass the checks of lines 35-44.
GrowthPrincipals == {PyInt(0), PyInt(1000)}

LargePrincipal == PyFloat(Float(1, <<7527, 17408, 25660, 47>>, 946) (* 1e+300 *))

GrowthRates == {PyInt(0), PyInt(1), PyInt(9), PyFloat(Inf),
                PyFloat(Float(1, <<16931, 6436, 29316, 188>>, -119) (* 1e-20 *)),
                PyFloat(Float(1, <<5>>, -2) (* 1.25 *))}

GrowthTimes == {PyInt(0), PyFloat(Float(1, <<1>>, -1) (* 0.5 *)), PyInt(1), PyInt(2), PyInt(400),
                PyInt(701), PyInt(20000), PyFloat(NaN)}

CompoundTimes == GrowthTimes \cup {PyInt(20)}

CompoundTypes == {PyStr("continuously"), PyStr("annually"), PyStr("monthly"),
                  PyInt(0), PyInt(1), PyInt(2), PyInt(12)}

ContributionAmounts == {PyInt(0), PyInt(100),
        PyFloat(Float(1, <<24133, 14430, 14750, 4>>, 976) (* 1e+308 *))}

ContributionFrequencies == {PyInt(0), PyInt(1), PyInt(4), PyInt(12)}

\* Whole cases of growth, as <<principal, rate, time, compoundings a year>>:
\* the page's form when it opens (lines 154-189), the same compounded once a
\* year, and growth whose power is near the middle between two floats
\* (1.5 ** 34 is exactly there, 10 ** 0.3 is close).
WholeGrowth == {<<Float(1, <<125>>, 3) (* 1000 *),
                Float(1, <<19661, 6553, 13107, 102>>, -56) (* 0.05 *),
                Float(1, <<5>>, 1) (* 10 *), 12>>,
                <<Float(1, <<125>>, 3) (* 1000 *),
                    Float(1, <<19661, 6553, 13107, 102>>, -56) (* 0.05 *),
                    Float(1, <<5>>, 1) (* 10 *), 1>>,
                <<One, Float(1, <<1>>, -1) (* 0.5 *), Float(1, <<17>>, 1) (* 34 *), 1>>,
                <<One, Float(1, <<9>>, 0) (* 9 *),
                    Float(1, <<13107, 26214, 19660, 153>>, -54) (* 0.3 *), 1>>}

\* Arguments of either kind: a str, a negative number, 0 and a valid value.
AnyPrincipals == {PyStr("1000"), PyInt(-1), PyInt(0), PyInt(1000)}

AnyRates == {PyStr("5"), PyInt(-1), PyInt(0), PyInt(1)}

AnyTimes == {PyStr("10"), PyInt(-1), PyInt(0), PyInt(1)}

AnyCompoundTypes == {PyStr("continuously"), PyStr("annually"), PyInt(0), PyInt(1)}

AnyAmounts == {PyStr("100"), PyInt(-1), PyInt(0), PyInt(100)}

AnyFrequencies == {PyStr("12"), PyFloat(Float(1, <<3>>, 2) (* 12 *)), PyInt(-1), PyInt(0), PyInt(1)}

NumTimes == {PyInt(0), PyInt(1), PyInt(2), PyFloat(Float(1, <<1>>, 1) (* 2 *))}

\* Lines 171-175 of the page: compound_options.
compound_options == {PyInt(1), PyInt(2), PyInt(4), PyInt(12), PyInt(26),
                     PyInt(52), PyInt(365), PyStr("continuously")}

\* Lines 192-196: contrib_freq_options.
contrib_freq_options == {PyStr("match"), PyInt(12), PyInt(4), PyInt(2), PyInt(1),
                         PyInt(26), PyInt(52)}

\* The page's number inputs have min_value = 0.0 (lines 154-189).
FormPrincipals == {Zero, Float(1, <<125>>, 3) (* 1000 *)}

FormRatePercents == {Zero, Float(1, <<5>>, 0) (* 5 *), Float(1, <<25>>, 2) (* 100 *),
                     Float(1, <<225>>, 2) (* 900 *)}

FormTimes == {Zero, Float(1, <<1>>, -1) (* 0.5 *), One, Float(1, <<5>>, 1) (* 10 *),
              Float(1, <<701>>, 0) (* 701 *)}

FormAmounts == {Zero, Float(1, <<25>>, 2) (* 100 *)}

\* The exponentials the model computes: tabulated, or never evaluated.
ExpComputable(r, t) ==
    Eq(r, Zero) \/ Gt(Mul(r, t), Float(1, <<175>>, 2) (* 700 *)) \/ ExpKnown(Mul(r, t))

\* The discrete growth of future_value_with_contributions the model
\* computes: the logarithms of line 83 are tabulated.
FvDiscreteComputable(p, r, base, exponent) ==
    fv_checks_overflow(base, exponent)
       => (LogKnown(IF Gt(p, Zero) THEN p ELSE One) /\ LogKnown(base))

FvComputable(a) ==
    fv_validation(a.principal, a.rate, a.time, a.compound_type,
                  a.contribution_amount, a.contribution_frequency) = "none"
    => IF a.compound_type = PyStr("continuously")
       THEN ExpComputable(a.rate.v, a.time.v)
       ELSE FvDiscreteComputable(a.principal.v, a.rate.v,
                                 Add(One, Div(a.rate.v, n_compound(a.compound_type))),
                                 Mul(n_compound(a.compound_type), a.time.v))

\* The discrete growth of compound_interest the model computes.
CompoundDiscreteComputable(base, exponent) ==
    LogKnown(IF Gt(base, Zero) THEN base ELSE One)

CompoundComputable(a) ==
    (/\ compound_validation(a.principal, a.rate, a.time) = "none"
     /\ compound_periods(a.compound_type, a.num_times).status = "returned")
    => IF a.compound_type = PyStr("continuously")
       THEN ExpComputable(a.rate.v, a.time.v)
       ELSE CompoundDiscreteComputable(
               Add(One, Div(a.rate.v, compound_periods(a.compound_type, a.num_times).value)),
               Mul(compound_periods(a.compound_type, a.num_times).value, a.time.v))

\* A direct call of future_value_with_contributions with any arguments.
InitFutureValue ==
    /\ entry = "future_value_with_contributions" /\ pc = "call" /\ run = "direct"
    /\ \/ args \in [principal : GrowthPrincipals, rate : GrowthRates,
                    time : GrowthTimes, compound_type : CompoundTypes,
                    contribution_amount : ContributionAmounts,
                    contribution_frequency : ContributionFrequencies,
                    num_times : {PyInt(1)}]
       \/ args \in [principal : AnyPrincipals, rate : AnyRates,
                    time : AnyTimes, compound_type : AnyCompoundTypes,
                    contribution_amount : AnyAmounts,
                    contribution_frequency : AnyFrequencies,
                    num_times : {PyInt(1)}]
       \/ \E case \in WholeGrowth :
             args = [principal |-> PyFloat(case[1]), rate |-> PyFloat(case[2]),
                     time |-> PyFloat(case[3]), compound_type |-> PyInt(case[4]),
                     contribution_amount |-> PyFloat(Float(1, <<25>>, 2) (* 100 *)),
                     contribution_frequency |-> PyInt(case[4]),
                     num_times |-> PyInt(1)]
    /\ FvComputable(args)
    /\ form = NoForm /\ out = NoOut
    /\ NoFrame /\ NoWidgets

\* A direct call of compound_interest with any arguments.
InitCompoundInterest ==
    /\ entry = "compound_interest" /\ pc = "call" /\ run = "direct"
    /\ \/ args \in [principal : GrowthPrincipals \cup {LargePrincipal},
                    rate : GrowthRates, time : CompoundTimes,
                    compound_type : CompoundTypes,
                    contribution_amount : {PyInt(0)},
                    contribution_frequency : {PyInt(0)},
                    num_times : NumTimes]
       \/ args \in [principal : AnyPrincipals, rate : AnyRates,
                    time : AnyTimes, compound_type : AnyCompoundTypes,
                    contribution_amount : {PyInt(0)},
                    contribution_frequency : {PyInt(0)},
                    num_times : NumTimes]
       \/ \E case \in WholeGrowth :
             /\ args \in [principal : {PyFloat(case[1])}, rate : {PyFloat(case[2])},
                           time : {PyFloat(case[3])},
                           compound_type : {PyInt(case[4]), PyStr("monthly")},
                           contribution_amount : {PyInt(0)},
                           contribution_frequency : {PyInt(0)},
                           num_times : {PyInt(case[4])}]
    /\ CompoundComputable(args)
    /\ form = NoForm /\ out = NoOut
    /\ NoFrame /\ NoWidgets

\* The interest page with its form filled in, about to be submitted.
InitInterestPage ==
    /\ entry = "interest_page" /\ pc = "submit" /\ run = "direct"
    /\ form \in [principal : FormPrincipals, rate_percent : FormRatePercents,
                 time : FormTimes, compound_input : compound_options,
                 contribution_amount : FormAmounts,
                 selected_contrib_freq : contrib_freq_options]
    /\ FvComputable(PageArgs(form))
    /\ args = NoArgs /\ out = NoOut
    /\ NoFrame /\ NoWidgets

\* pages/2_Loan_Calculator.py: a call of one of its functions, or the page.
LoanInit ==
    /\ ret = NoResult
    /\ NoLocals
    /\ NoPageLocals
    /\ \/ InitLoanPayment
       \/ InitAmortization
       \/ InitLoanPage

\* pages/1_Interest_Calculator.py and the old page: a call of the function
\* of either, or the page.
GrowthInit ==
    /\ ret = NoResult
    /\ NoLocals
    /\ NoPageLocals
    /\ \/ InitFutureValue
       \/ InitCompoundInterest
       \/ InitInterestPage

Init == LoanInit \/ GrowthInit

\* Where a finished calculate_amortization continues.
ReturnPc == IF run = "direct" THEN "done"
            ELSE IF run = "base" THEN "after_base" ELSE "after_extra"

\* calculate_loan_payment, lines 8-26, called directly.
CallLoanPayment ==
    /\ pc = "call" /\ entry = "calculate_loan_payment"
    /\ ret' \in calculate_loan_payment(principal, annual_rate, years, payments_per_year)
    /\ pc' = "done"
    /\ UNCHANGED <<growth_vars, entry, run, frame_vars, local_vars, widget_vars, base_vars,
                   extra_vars, schedule_to_display, shown>>

\* Lines 38-47: the locals before the loop, given the payment of line 34.
EnterLoop(regular) ==
    /\ regular_payment' = regular
    /\ periodic_rate' = Div(annual_rate, payments_per_year)
    /\ total_payment' = TotalPayment(regular, extra_payment)
    /\ schedule' = <<>>
    /\ current_balance' = principal
    /\ total_interest_paid' = Zero
    /\ payment_num' = 0
    /\ pc' = "loop"
    /\ ret' = NoResult

\* The call for the scenario with extra payments has the arguments of the
\* call for the base scenario, whose schedule was computed, and the library
\* is a function: the payment is the one the locals still hold.
SameAsBase(regular) == run = "extra" => regular = regular_payment

\* Lines 33-47, given the outcome of calculate_loan_payment.
EnterWith(pay) ==
    IF pay.status = "raised"
    THEN /\ ret' = pay
         /\ pc' = ReturnPc
         /\ UNCHANGED local_vars
    ELSE IF RegularPayment(pay.value, principal, years, payments_per_year).status
               = "raised"
    THEN /\ ret' = RegularPayment(pay.value, principal, years, payments_per_year)
         /\ pc' = ReturnPc
         /\ UNCHANGED local_vars
    ELSE /\ SameAsBase(RegularPayment(pay.value, principal, years,
                                       payments_per_year).value)
         /\ EnterLoop(RegularPayment(pay.value, principal, years,
                                     payments_per_year).value)

\* calculate_amortization, lines 31-47: up to the loop.
AmortizationEnter ==
    /\ pc = "call" /\ entry \in {"calculate_amortization", "loan_page"}
    /\ IF NoLoan(principal)
       THEN /\ ret' = EmptyResult
            /\ pc' = ReturnPc
            /\ UNCHANGED local_vars
       ELSE \E pay \in calculate_loan_payment(principal, annual_rate, years,
                                                payments_per_year) : EnterWith(pay)
    /\ UNCHANGED <<growth_vars, entry, run, frame_vars, widget_vars, base_vars, extra_vars,
                   schedule_to_display, shown>>

\* Lines 67-80: the row is appended; the loop ends when the loan is paid off,
\* else total_payment is reset.
EndIteration(after) ==
    /\ payment_num' = after.payment_num
    /\ current_balance' = after.current_balance
    /\ total_interest_paid' = after.total_interest_paid
    /\ schedule' = Append(schedule, after.row)
    /\ IF PaidOff(after.current_balance)
       THEN /\ total_payment' = after.total_payment
            /\ pc' = "summary"
       ELSE /\ total_payment' = TotalPayment(regular_payment, extra_payment)
            /\ pc' = "loop"

\* Lines 49-80: one iteration of the loop.
LoopIteration ==
    /\ pc = "loop"
    /\ LoopCondition(current_balance, payment_num, years, payments_per_year)
    /\ EndIteration(LoopBody(current_balance, total_payment, periodic_rate,
                             total_interest_paid, payment_num))
    /\ UNCHANGED <<growth_vars, entry, run, ret, frame_vars, regular_payment, periodic_rate,
                   widget_vars, base_vars, extra_vars, schedule_to_display, shown>>

\* Line 49: the loop condition is false.
LoopExit ==
    /\ pc = "loop"
    /\ ~LoopCondition(current_balance, payment_num, years, payments_per_year)
    /\ pc' = "summary"
    /\ UNCHANGED <<growth_vars, entry, run, ret, frame_vars, local_vars, widget_vars, base_vars,
                   extra_vars, schedule_to_display, shown>>

\* Lines 83-86.
AmortizationReturn ==
    /\ pc = "summary"
    /\ ret' = Summary(schedule, regular_payment, total_interest_paid, payment_num)
    /\ pc' = ReturnPc
    /\ UNCHANGED <<growth_vars, entry, run, frame_vars, local_vars, widget_vars, base_vars,
                   extra_vars, schedule_to_display, shown>>

\* Lines 229-233: the page's handlers for an exception of the named type.
Handler(err) == IF err \in {"ValueError", "TypeError"} THEN "error_input"
                ELSE "error_unexpected"

\* Lines 159-165: submit, and the call of the base scenario.
Submit ==
    /\ pc = "submit" /\ entry = "loan_page"
    /\ principal' = loan_principal
    /\ annual_rate' = Div(loan_rate_percent, Float(1, <<25>>, 2) (* 100 *))
    /\ years' = loan_years
    /\ payments_per_year' = selected_freq
    /\ extra_payment' = Zero
    /\ run' = "base"
    /\ pc' = "call"
    /\ UNCHANGED <<growth_vars, entry, ret, local_vars, widget_vars, base_vars, extra_vars,
                   schedule_to_display, shown>>

\* Lines 164-186 and 210-213: unpack the base scenario into five names, show
\* its summary, and call the scenario with extra payments if there are any.
AfterBase ==
    /\ pc = "after_base"
    /\ IF ret.status = "raised"
       THEN /\ shown' = Append(shown, Handler(ret.error))
            /\ pc' = "done"
            /\ UNCHANGED <<run, extra_payment, base_vars, schedule_to_display>>
       ELSE IF Len(ret.value) # 5
       THEN /\ shown' = Append(shown, Handler("ValueError"))
            /\ pc' = "done"
            /\ UNCHANGED <<run, extra_payment, base_vars, schedule_to_display>>
       ELSE /\ base_schedule_df' = ret.value[1]
            /\ base_payment' = ret.value[2]
            /\ base_total_paid' = ret.value[3]
            /\ base_total_interest' = ret.value[4]
            /\ base_num_payments' = ret.value[5]
            /\ shown' = Append(shown, IF ret.value[1] # <<>> THEN "summary"
                                      ELSE "warning")
            /\ IF Gt(extra_payment_input, Zero)
               THEN /\ extra_payment' = extra_payment_input
                    /\ run' = "extra"
                    /\ pc' = "call"
                    /\ UNCHANGED schedule_to_display
               ELSE /\ schedule_to_display' = ret.value[1]
                    /\ pc' = "display"
                    /\ UNCHANGED <<run, extra_payment>>
    /\ ret' = NoResult
    /\ UNCHANGED <<growth_vars, entry, principal, annual_rate, years, payments_per_year,
                   local_vars, widget_vars, extra_vars>>

\* Lines 185-209: unpack the scenario with extra payments and show the savings.
AfterExtra ==
    /\ pc = "after_extra"
    /\ IF ret.status = "raised"
       THEN /\ shown' = Append(shown, Handler(ret.error))
            /\ pc' = "done"
            /\ UNCHANGED <<extra_vars, schedule_to_display>>
       ELSE IF Len(ret.value) # 5
       THEN /\ shown' = Append(shown, Handler("ValueError"))
            /\ pc' = "done"
            /\ UNCHANGED <<extra_vars, schedule_to_display>>
       ELSE /\ extra_schedule_df' = ret.value[1]
            /\ extra_total_paid' = ret.value[3]
            /\ extra_total_interest' = ret.value[4]
            /\ extra_num_payments' = ret.value[5]
            /\ pc' = "display"
            /\ IF ret.value[1] # <<>>
               THEN /\ payments_saved' = base_num_payments - ret.value[5]
                    /\ interest_saved' = Sub(base_total_interest, ret.value[4])
                    /\ shown' = Append(shown, "extra_summary")
                    /\ schedule_to_display' = ret.value[1]
               ELSE /\ shown' = Append(shown, "warning")
                    /\ schedule_to_display' = base_schedule_df
                    /\ UNCHANGED <<payments_saved, interest_saved>>
    /\ ret' = NoResult
    /\ UNCHANGED <<growth_vars, entry, run, frame_vars, local_vars, widget_vars, base_vars>>

\* Lines 216-226: the amortization table.
Display ==
    /\ pc = "display"
    /\ shown' = Append(shown, IF schedule_to_display # <<>> THEN "table" ELSE "info")
    /\ pc' = "done"
    /\ UNCHANGED <<growth_vars, entry, run, ret, frame_vars, local_vars, widget_vars, base_vars,
                   extra_vars, schedule_to_display>>

\* future_value_with_contributions, lines 6-140, called directly.
CallFutureValue ==
    /\ pc = "call" /\ entry = "future_value_with_contributions"
    /\ ret' \in fv_call(args)
    /\ pc' = "done"
    /\ UNCHANGED <<growth_vars, entry, run, frame_vars, local_vars, widget_vars,
                   base_vars, extra_vars, schedule_to_display, shown>>

\* compound_interest, lines 7-68 of the old page, called directly.
CallCompoundInterest ==
    /\ pc = "call" /\ entry = "compound_interest"
    /\ ret' \in compound_interest(args.principal, args.rate, args.time,
                                args.compound_type, args.num_times)
    /\ pc' = "done"
    /\ UNCHANGED <<growth_vars, entry, run, frame_vars, local_vars, widget_vars,
                   base_vars, extra_vars, schedule_to_display, shown>>

\* What the interest page keeps and renders for the outcome of its call,
\* below the notices it has already written.
InterestOutcome(result) ==
    IF result.status = "raised"
    THEN out' = NoOut /\ shown' = Notices(form) \o <<Handler(result.error)>>
    ELSE /\ out' = PageOut(form, result.value)
         /\ shown' = Notices(form) \o Rendered(form, out')

\* Lines 205-320 of pages/1_Interest_Calculator.py: the form is submitted.
SubmitInterest ==
    /\ pc = "submit" /\ entry = "interest_page"
    /\ args' = PageArgs(form)
    /\ ret' \in fv_call(args')
    /\ InterestOutcome(ret')
    /\ pc' = "done"
    /\ UNCHANGED <<form, entry, run, frame_vars, local_vars, widget_vars,
                   base_vars, extra_vars, schedule_to_display>>

LoanNext ==
    \/ CallLoanPayment
    \/ AmortizationEnter
    \/ LoopIteration
    \/ LoopExit
    \/ AmortizationReturn
    \/ Submit
    \/ AfterBase
    \/ AfterExtra
    \/ Display

GrowthNext ==
    \/ CallFutureValue
    \/ CallCompoundInterest
    \/ SubmitInterest

Next == LoanNext \/ GrowthNext

\* The loan calculator.
LoanSpec == LoanInit /\ [][LoanNext]_vars

\* The interest calculators.
GrowthSpec == GrowthInit /\ [][GrowthNext]_vars

\* Both.
Spec == Init /\ [][Next]_vars

(***************************************************************************)
(* Properties of calculate_loan_payment and calculate_amortization.        *)
(***************************************************************************)

\* calculate_amortization has just finished, with a value or an exception;
\* the arguments and locals are those of that call.
AmortizationFinished ==
    entry \in {"calculate_amortization", "loan_page"} /\ ret.status # "none"

AmortizationReturned ==
    entry \in {"calculate_amortization", "loan_page"} /\ ret.status = "returned"

LoanPaymentFinished == entry = "calculate_loan_payment" /\ pc = "done"

\* principal > 0, annualRate >= 0, years > 0, paymentsPerYear > 0, extraPayment >= 0
ValidLoan ==
    /\ Gt(principal, Zero) /\ Ge(annual_rate, Zero) /\ Gt(years, Zero)
    /\ Gt(payments_per_year, Zero) /\ Ge(extra_payment, Zero)

\* annualRate < 0, years <= 0 or paymentsPerYear <= 0
InvalidTerms ==
    Lt(annual_rate, Zero) \/ Le(years, Zero) \/ Le(payments_per_year, Zero)

LastRow(rows) == rows[Len(rows)]

RECURSIVE SumPrincipalPaid(_)
SumPrincipalPaid(rows) ==
    IF rows = <<>> THEN Zero
    ELSE Add(SumPrincipalPaid(SubSeq(rows, 1, Len(rows) - 1)),
             rows[Len(rows)].Principal_Paid)

Magnitude(a) == IF Lt(a, Zero) THEN Neg(a) ELSE a

\* C1: for every valid loan input the endingBalance of the last
\* row of the returned schedule is exactly 0.
C1_LastBalanceExactlyZero ==
    (AmortizationReturned /\ ValidLoan)
        => LastRow(ret.value[1]).Ending_Balance = Zero

\* C2: for every valid loan input the sum of principalPortion over the rows
\* of the returned schedule differs from the principal by at most 0.01.
C2_PrincipalRepaid ==
    (AmortizationReturned /\ ValidLoan)
        => Le(Magnitude(Sub(SumPrincipalPaid(ret.value[1]), principal)),
                Float(1, <<5243, 3932, 27525, 163>>, -59) (* 0.01 *))

\* C3: with the same principal, rate, years and payments per year and an
\* extra payment > 0, the schedule has no more payments and no more total
\* interest than the one with extra payment 0 (the page computes both).
C3_ExtraPaymentMonotone ==
    (entry = "loan_page" /\ run = "extra" /\ AmortizationReturned /\ ValidLoan
     /\ Len(ret.value) = 5)
        => /\ ret.value[5] <= base_num_payments
           /\ Le(ret.value[4], base_total_interest)

\* Both scenarios computed, the one with extra payments strictly shorter and
\* strictly cheaper.
C3_Witness ==
    /\ entry = "loan_page" /\ run = "extra" /\ AmortizationReturned /\ ValidLoan
    /\ Gt(extra_payment, Zero)
    /\ ret.value[5] < base_num_payments
    /\ Lt(ret.value[4], base_total_interest)
    /\ Gt(ret.value[4], Zero)

\* C4: with principal <= 0, calculate_amortization returns an empty schedule
\* and 0 for regularPayment, totalPaid, totalInterestPaid and paymentCount,
\* whatever the other arguments, and raises nothing.
C4_NoLoanReturnsZeros ==
    (AmortizationFinished /\ Le(principal, Zero))
        => /\ ret.status = "returned"
           /\ ret.value[1] = <<>>
           /\ \A i \in 2..5 : ret.value[i] = Zero

\* A call with principal <= 0 and every other argument invalid has returned.
C4_Witness ==
    /\ AmortizationFinished /\ Le(principal, Zero) /\ Lt(annual_rate, Zero)
    /\ Le(years, Zero) /\ Le(payments_per_year, Zero) /\ Lt(extra_payment, Zero)
    /\ ret.status = "returned"

\* C5: calculate_loan_payment returns 0 whenever principal <= 0, also when
\* annualRate < 0, years <= 0 or paymentsPerYear <= 0.
C5_NoPrincipalNoPayment ==
    (LoanPaymentFinished /\ Le(principal, Zero)) => ret = Returned(Zero)

\* A call with principal <= 0 and every other argument invalid has returned.
C5_Witness ==
    /\ LoanPaymentFinished /\ Le(principal, Zero) /\ Lt(annual_rate, Zero)
    /\ Le(years, Zero) /\ Le(payments_per_year, Zero)
    /\ ret.status = "returned"

\* C6: with principal > 0 and annualRate < 0, years <= 0 or paymentsPerYear
\* <= 0, calculate_loan_payment raises ValueError, and calculate_amortization
\* raises the same error with no row and no summary produced.
C6_InvalidTermsRaise ==
    /\ (LoanPaymentFinished /\ Gt(principal, Zero) /\ InvalidTerms)
          => ret = Raised("ValueError")
    /\ (AmortizationFinished /\ Gt(principal, Zero) /\ InvalidTerms)
          => (ret = Raised("ValueError") /\ schedule = <<>>)

\* calculate_amortization has raised for a positive principal and a term of
\* zero years, the other arguments valid.
C6_Witness ==
    /\ AmortizationFinished /\ Gt(principal, Zero) /\ years = Zero
    /\ Ge(annual_rate, Zero) /\ Gt(payments_per_year, Zero)
    /\ ret.status = "raised"

\* C7: calculate_amortization with a negative extraPayment (principal > 0,
\* the other arguments valid) fails with ValueError before any row is
\* computed.
C7_NegativeExtraRejected ==
    (AmortizationFinished /\ Gt(principal, Zero) /\ ~InvalidTerms
     /\ Lt(extra_payment, Zero))
        => (ret = Raised("ValueError") /\ schedule = <<>>)

(***************************************************************************)
(* Properties of compound_interest and future_value_with_contributions.    *)
(***************************************************************************)

\* A direct call of future_value_with_contributions on finite numbers has
\* returned a result.
FutureValueReturned ==
    /\ entry = "future_value_with_contributions" /\ pc = "done"
    /\ ret.status = "returned"
    /\ IsFin(args.rate.v) /\ IsFin(args.time.v)

\* A direct call of compound_interest on finite numbers has returned a
\* result.
CompoundInterestReturned ==
    /\ entry = "compound_interest" /\ pc = "done" /\ ret.status = "returned"
    /\ IsFin(args.rate.v) /\ IsFin(args.time.v)

\* contributionAmount * contributionFrequency * time of the call's arguments
Deposits ==
    Mul(Mul(args.contribution_amount.v, args.contribution_frequency.v), args.time.v)

AllFinite(value) == \A i \in 1..Len(value) : IsFin(value[i])

AllInfinite(value) == \A i \in 1..Len(value) : value[i] = Inf

\* C8: for every valid input with rate = 0 the growth engines return
\* totalInterest exactly 0 and finalAmount = principal + totalContributions
\* (for compound_interest, finalAmount = principal), also when the
\* contribution frequency differs from the compounding frequency.  Stated
\* here for the results that hold no infinity only.
C8_ZeroRateNoInterest ==
    /\ (FutureValueReturned /\ Eq(args.rate.v, Zero) /\ AllFinite(ret.value))
          => /\ ret.value[2] = Zero
             /\ ret.value[1] = Add(args.principal.v, ret.value[3])
    /\ (CompoundInterestReturned /\ Eq(args.rate.v, Zero))
          => /\ ret.value[2] = Zero
             /\ ret.value[1] = args.principal.v

\* C9: for every valid input with rate >= 0 whose result holds no infinity
\* or NaN, future_value_with_contributions returns totalContributions =
\* contributionAmount * contributionFrequency * time (0 without
\* contributions) and finalAmount >= principal + totalContributions, for
\* every combination of the two frequencies; compound_interest returns
\* finalAmount >= principal.
C9_FinalCoversDeposits ==
    /\ (FutureValueReturned /\ AllFinite(ret.value))
          => /\ ret.value[3] \in {Deposits, Zero}
             /\ Ge(ret.value[1], Add(args.principal.v, ret.value[3]))
    /\ (CompoundInterestReturned /\ AllFinite(ret.value))
          => Ge(ret.value[1], args.principal.v)

\* C10: for every valid input the growth engines return either finite
\* values in every field of the result or infinity in every field; no mix of
\* the two and no NaN is returned.
C10_OverflowAllOrNothing ==
    (FutureValueReturned \/ CompoundInterestReturned)
        => AllFinite(ret.value) \/ AllInfinite(ret.value)

\* The argument is negative or not a number.
BadNumber(x) == ~IsNumber(x) \/ Lt(x.v, Zero)

\* The argument is negative or not an int.
BadFrequency(x) == ~IsInt(x) \/ Lt(x.v, Zero)

\* The compounding is an integer <= 0.
BadCompounding(c) == IsInt(c) /\ Le(c.v, Zero)

\* C11: the growth engines raise ValueError or TypeError and return no
\* result whenever principal, rate, time, contributionAmount or
\* contributionFrequency is negative or of the wrong type, or the compounding
\* is an integer <= 0, also when principal = 0 and nothing is contributed.
C11_InvalidArgumentsRaise ==
    /\ (/\ entry = "future_value_with_contributions" /\ pc = "done"
        /\ (\/ BadNumber(args.principal) \/ BadNumber(args.rate)
            \/ BadNumber(args.time) \/ BadNumber(args.contribution_amount)
            \/ BadFrequency(args.contribution_frequency)
            \/ BadCompounding(args.compound_type)))
          => (ret.status = "raised" /\ ret.error \in {"ValueError", "TypeError"})
    /\ (/\ entry = "compound_interest" /\ pc = "done"
        /\ (\/ BadNumber(args.principal) \/ BadNumber(args.rate)
            \/ BadNumber(args.time) \/ BadCompounding(args.compound_type)))
          => (ret.status = "raised" /\ ret.error \in {"ValueError", "TypeError"})

\* future_value_with_contributions has raised for a compounding of 0 with
\* principal 0 and no contributions, every other argument valid.
C11_Witness ==
    /\ entry = "future_value_with_contributions" /\ pc = "done"
    /\ ret = Raised("ValueError")
    /\ args.principal = PyInt(0) /\ args.contribution_amount = PyInt(0)
    /\ args.compound_type = PyInt(0)
    /\ ~BadNumber(args.rate) /\ ~BadNumber(args.time)
    /\ ~BadFrequency(args.contribution_frequency)

NotPaidOff ==
    /\ AmortizationFinished /\ Gt(principal, Zero) /\ ~InvalidTerms
    /\ ~Le(current_balance, Float(1, <<5243, 3932, 27525, 163>>, -59) (* 0.01 *))

Near(a, b, row) ==
    Le(Magnitude(Sub(a, b)),
       Mul(Float(1, <<22165, 20557, 14383, 137>>, -82) (* 1e-9 *),
           Add(Add(Magnitude(row.Starting_Balance), Magnitude(row.Payment)),
                          Magnitude(row.Interest_Paid))))

\* C14: every row of the schedule is consistent: interestPortion =
\* startingBalance * periodicRate, paymentAmount = principalPortion +
\* interestPortion, endingBalance = startingBalance - principalPortion; row k
\* has paymentIndex k, the first row starts at the principal and every later
\* row starts at the previous row's endingBalance.  Stated for the schedules
\* of valid loan inputs, the equalities between amounts up to floating-point
\* rounding.
C14_RowsConsistent ==
    (entry \in {"calculate_amortization", "loan_page"} /\ ValidLoan) =>
    \A k \in 1..Len(schedule) :
        /\ schedule[k].Payment_Num = k
        /\ Near(schedule[k].Interest_Paid,
                Mul(schedule[k].Starting_Balance, Div(annual_rate, payments_per_year)),
                schedule[k])
        /\ Near(schedule[k].Payment,
                Add(schedule[k].Principal_Paid, schedule[k].Interest_Paid), schedule[k])
        /\ Near(schedule[k].Ending_Balance,
                Sub(schedule[k].Starting_Balance, schedule[k].Principal_Paid),
                schedule[k])
        /\ Near(schedule[k].Starting_Balance,
                IF k = 1 THEN principal ELSE schedule[k - 1].Ending_Balance,
                schedule[k])

\* C15: in every schedule every row but the last has paymentAmount =
\* regularPayment + extraPayment; the last row has that payment too, or a
\* smaller one with the principalPortion clamped to the remaining balance.
C15_OnlyLastPaymentDiffers ==
    AmortizationReturned
        => \A k \in 1..Len(ret.value[1]) :
              \/ ret.value[1][k].Payment = Add(ret.value[2], extra_payment)
              \/ /\ k = Len(ret.value[1])
                 /\ Lt(ret.value[1][k].Payment, Add(ret.value[2], extra_payment))
                 /\ ret.value[1][k].Principal_Paid = ret.value[1][k].Starting_Balance
                 /\ ret.value[1][k].Ending_Balance = Zero

\* A schedule with an extra payment has been returned whose first row pays
\* regularPayment + extraPayment and whose last row pays less.
C15_Witness ==
    /\ AmortizationReturned /\ ValidLoan /\ Gt(extra_payment, Zero)
    /\ Len(schedule) >= 2 /\ ret.value[1] = schedule
    /\ schedule[1].Payment = Add(ret.value[2], extra_payment)
    /\ Lt(LastRow(schedule).Payment, Add(ret.value[2], extra_payment))

\* C16: for every valid loan input every monetary field of every row is
\* non-negative and every row's endingBalance is strictly less than its
\* startingBalance.
C16_BalanceStrictlyDecreases ==
    (AmortizationReturned /\ ValidLoan)
        => \A k \in 1..Len(ret.value[1]) :
              /\ Ge(ret.value[1][k].Starting_Balance, Zero)
              /\ Ge(ret.value[1][k].Payment, Zero)
              /\ Ge(ret.value[1][k].Principal_Paid, Zero)
              /\ Ge(ret.value[1][k].Interest_Paid, Zero)
              /\ Ge(ret.value[1][k].Ending_Balance, Zero)
              /\ Lt(ret.value[1][k].Ending_Balance, ret.value[1][k].Starting_Balance)

\* C17: for every valid loan input with principal > 0.01 the loop ends
\* because the balance reached 0.01 and never at the safety break: the loan
\* is paid off within ceil(years * paymentsPerYear) payments.
C17_PaidOffWithinTerm ==
    (AmortizationReturned /\ ValidLoan /\ Gt(principal,
            Float(1, <<5243, 3932, 27525, 163>>, -59) (* 0.01 *)))
        => /\ Le(current_balance, Float(1, <<5243, 3932, 27525, 163>>, -59) (* 0.01 *))
           /\ Lt(FromInt(ret.value[5] - 1), Mul(years, payments_per_year))

\* C18: for every principal > 0 with valid other inputs, a principal of at
\* most 0.01 included, calculate_amortization returns normally, with
\* totalPaid the sum of the rows' payments and paymentCount the number of
\* rows.
C18_SummaryAlwaysBuilt ==
    (AmortizationFinished /\ ValidLoan)
        => /\ ret.status = "returned"
           /\ ret.value[3] = SumPayment(ret.value[1])
           /\ ret.value[5] = Len(ret.value[1])

\* C19: calculate_amortization returns exactly five components on every
\* path, and the loan page, given a loan amount of 0, shows its warning
\* instead of an error.
C19_SameShapeOnEveryPath ==
    /\ AmortizationReturned => Len(ret.value) = 5
    /\ (entry = "loan_page" /\ pc = "done" /\ loan_principal = Zero)
          => (shown # <<>> /\ shown[1] = "warning")

====
